---- MODULE Spec2Model ----
(***************************************************************************)
(* Gesture pipeline of the jarvis renderer.                                *)
(*                                                                         *)
(*   GestureRecognizer (services/GestureRecognizer.ts): classifier and     *)
(*   hold-to-confirm debouncer.                                            *)
(*   App with aim / command mode (the App.tsx revision that owns           *)
(*   commandMode, frozenPointerRef, updateDisplay): Spec.                  *)
(*   App with gesture actions (the App.tsx revision that owns              *)
(*   GESTURE_ACTIONS, executeGestureAction): SpecAct.                      *)
(*   recognizeGesture called directly on one landmark array: SpecClassify. *)
(*   updatePointer called directly, with resizes and the precision slider: *)
(*   SpecPointer.                                                          *)
(*   The aim / command loop given a landmark array with an entry missing:  *)
(*   SpecErr.                                                              *)
(*   The gesture-action loop built with DRY_RUN = false, and the main      *)
(*   process answering its invoke calls: SpecLive.                         *)
(*   The gesture-action loop that awaits the body segmentation: SpecSeg.   *)
(*   NetworkService of the main process on every machine of the multicast  *)
(*   group (electron/main.ts): SpecNet.                                    *)
(*   BodySegmentationService with power modes, its setMode calls           *)
(*   overlapping as App makes them: SpecBodySeg.                           *)
(*                                                                         *)
(* Time is in milliseconds.  Landmark coordinates are in hundredths of the *)
(* normalized [0,1] range; pointer coordinates are in pixels.              *)
(***************************************************************************)
EXTENDS Integers, Sequences, FiniteSets, Bags, TLC

VARIABLES
    clock,              \* performance.now() at the current frame tick
    \* ---- GestureRecognizer instance ----
    faceDetected,       \* _faceDetected
    currentGesture,     \* _currentGesture
    gestureStartTime,   \* _gestureStartTime
    confirmedGesture,   \* _confirmedGesture
    \* ---- App, React state ----
    commandMode,        \* useState(false)
    displayState,       \* useState({... currentGesture, pointerPos, commandMode, pendingCommand})
    actionFeedback,     \* useState(null): {label, success}
    settings,           \* useState({... precisionSlowdown, activeHand: 'right'})
    viewport,           \* window.innerWidth, window.innerHeight
    dryRun,             \* the DRY_RUN flag the renderer was built with
    \* ---- event loop ----
    rafPending,         \* requestAnimationFrame callbacks queued for predictWebcam
    awaiting,           \* predictWebcam calls suspended at `await processFrame`, with
                        \* the `results` each holds
    ipcCalls,           \* ipcRenderer.invoke calls made, pending or settled
    \* ---- main process, NetworkService of every machine ----
    network,            \* datagrams sent to the multicast group and not yet received,
                        \* and the number of broadcasts made
    netLog,             \* (history) the last network event and counts of broadcasts
    \* ---- BodySegmentationService instance ----
    bodySeg,            \* _currentMode, _frameCount, net, the models created and the
                        \* bodyPix.load calls not yet resolved
    segLog,             \* (history) the last BodySegmentationService event
    \* ---- App, refs ----
    currentGestureRef,
    frozenPointerRef,
    pointerPosRef,
    lastPointerRef,
    isPrecisionModeRef,
    lastGestureRef,
    pendingCommandRef,
    lastDisplayUpdateRef,
    lastActionTimeRef,
    \* ---- values bound in the closure that runs the frame loop ----
    loopCommandMode,    \* `commandMode` as seen by the running predictWebcam
    loopSettings,       \* `settings` as seen by the running predictWebcam
    \* ---- a direct call of recognizeGesture ----
    handPose,           \* the landmark array passed
    classified,         \* what the call returned or threw, Null before the call
    \* ---- observation of the run (history, not program state) ----
    tick,               \* what the last frame tick did
    hold,               \* the run of identical raw labels over the update calls of
                        \* the aim / command loop
    dispatchLog,        \* executeGestureAction calls: the accepted ones and the first
                        \* rejected one after each, with gesture and Date.now()
    trig                \* what the confirmed label has triggered since it last changed

vars == << clock, faceDetected, currentGesture, gestureStartTime, confirmedGesture,
           commandMode, displayState, actionFeedback, currentGestureRef,
           frozenPointerRef, pointerPosRef, lastPointerRef, isPrecisionModeRef,
           lastGestureRef, pendingCommandRef, lastDisplayUpdateRef,
           lastActionTimeRef, loopCommandMode, tick, hold, dispatchLog,
           settings, loopSettings, handPose, classified, trig,
           viewport, dryRun, rafPending, awaiting, ipcCalls,
           network, netLog, bodySeg, segLog >>

ServiceVars == << network, netLog, bodySeg, segLog >>

-----------------------------------------------------------------------------
(* Bounds of the model                                                     *)

MaxClock == 900
MaxClockAct == 2700
ViewportW == 1600
ViewportH == 800
EpochOffset == 5000
MaxClockLive == 1000
MaxClockPointer == 300
MaxUserBroadcasts == 2
MaxSent == 8
MaxSetModeCalls == 3
MaxFrames == 3
MaxClockSeg == 900

\* Time between two frame ticks of the aim / command loop.
Steps == {100, 299, 300}

\* Time between two frame ticks of the gesture-action loop.
StepsAct == {200, 300, 1300}

Null == "null"

\* A pointer ref holding null.
NoPointer == [x |-> -1, y |-> -1]

-----------------------------------------------------------------------------
(* Program constants                                                       *)

HOLD_THRESHOLD_MS == 300
ACTION_COOLDOWN_MS == 2000
DISPLAY_UPDATE_INTERVAL == 50

\* PINCH_THRESHOLD = 0.06, in hundredths.
PINCH_THRESHOLD == 6
DRY_RUN == TRUE

\* DEFAULT_RAYCAST_FACTOR = 2.5 and DEFAULT_PRECISION_SLOWDOWN = 0.25, as fractions.
RaycastNum == 5
RaycastDen == 2
SlowdownNum == 1
SlowdownDen == 4

COMMAND_MODE_ACTIONS ==
    [ PEACE_SIGN    |-> [label |-> "TERMINAL 2", key |-> "Alt+2"],
      THREE_FINGERS |-> [label |-> "TERMINAL 3", key |-> "Alt+3"],
      FOUR_FINGERS  |-> [label |-> "TERMINAL 4", key |-> "Alt+4"],
      THUMBS_UP     |-> [label |-> "CLICK", key |-> Null],
      CLOSED_FIST   |-> [label |-> "ENTER", key |-> "Enter"],
      ROCK_ON       |-> [label |-> "VOICE INPUT", key |-> "Win+H"],
      POINTING_UP   |-> [label |-> "EXIT COMMAND MODE", key |-> Null] ]

GESTURE_ACTIONS ==
    [ PEACE_SIGN    |-> [action |-> "screenshot", label |-> "SCREENSHOT", app |-> Null],
      POINTING_UP   |-> [action |-> "launch", label |-> "CHROME", app |-> "chrome"],
      THREE_FINGERS |-> [action |-> "launch", label |-> "VS CODE", app |-> "code"],
      FOUR_FINGERS  |-> [action |-> "launch", label |-> "SLACK", app |-> "slack"],
      THUMBS_UP     |-> [action |-> "launch", label |-> "EXPLORER", app |-> "explorer"],
      ROCK_ON       |-> [action |-> "launch", label |-> "TERMINAL", app |-> "terminal"] ]

-----------------------------------------------------------------------------
(* Hand poses: the landmarks the code reads (wrist 0, thumb 3/4, and the   *)
(* pip / tip of the four fingers), each with x and y.                      *)

LandmarkIdx == {0, 3, 4, 6, 8, 10, 12, 14, 16, 18, 20}

Fingers == {"thumb", "index", "middle", "ring", "pinky"}

\* A hand with its wrist at (wx, wy) and the fingers of `open` extended.
Hand(wx, wy, open) ==
    LET name(i) == CASE i \in {6, 8} -> "index" [] i \in {10, 12} -> "middle"
                     [] i \in {14, 16} -> "ring" [] OTHER -> "pinky"
        off(i) == CASE i \in {6, 8} -> 0 [] i \in {10, 12} -> 3
                    [] i \in {14, 16} -> 6 [] OTHER -> 9
    IN  [ i \in LandmarkIdx |->
            CASE i = 0 -> [x |-> wx, y |-> wy]
              [] i = 3 -> [x |-> wx - 10, y |-> wy - 4]
              [] i = 4 -> [x |-> IF "thumb" \in open THEN wx - 15 ELSE wx - 5, y |-> wy - 6]
              [] i \in {6, 10, 14, 18} -> [x |-> wx + off(i), y |-> wy - 10]
              [] OTHER -> [x |-> wx + off(i),
                           y |-> IF name(i) \in open THEN wy - 16 ELSE wy - 5] ]

PalmA == Hand(50, 80, Fingers)
PointA == Hand(50, 80, {"index"})
PointB == Hand(40, 80, {"index"})
PeaceA == Hand(50, 80, {"index", "middle"})
PeaceB == Hand(40, 80, {"index", "middle"})

FramePoses == {PalmA, PointA, PointB, PeaceB}

\* What the pose estimation reports for one frame: the face flag and up to
\* two hands, each with its handedness category.
FrameHands ==
    {<< >>}
    \cup {<<[handedness |-> h, landmarks |-> p]>> : h \in {"left", "right"}, p \in FramePoses}
    \cup {<<[handedness |-> "right", landmarks |-> PeaceB],
            [handedness |-> "left", landmarks |-> p]>> : p \in {PalmA, PointA}}

\* The gesture-action loop reads the first hand only.
FrameHandsAct == {<<[handedness |-> "left", landmarks |-> p]>> : p \in {PalmA, PointB, PeaceA}}

\* Landmark arrays for a direct classifier call: every combination of open
\* and closed thumb and fingers at two wrist positions ...
ClassifierHands == {Hand(wx, 80, open) : wx \in {40, 50}, open \in SUBSET Fingers}

\* ... and arrays cut off before index n (landmarks[i] is undefined from n on).
Truncated(lm, n) == [i \in {j \in DOMAIN lm : j < n} |-> lm[i]]

MalformedHands == {Truncated(lm, n) : lm \in {PalmA, PointB}, n \in {0, 8, 20}}

ClassifierInputs == ClassifierHands \cup MalformedHands

-----------------------------------------------------------------------------
(* GestureRecognizer.recognizeGesture                                      *)

\* Math.hypot(a.x - wrist.x, a.y - wrist.y), squared: only compared.
distToWrist2(lm, idx) ==
    (lm[idx].x - lm[0].x) * (lm[idx].x - lm[0].x) + (lm[idx].y - lm[0].y) * (lm[idx].y - lm[0].y)

Abs(n) == IF n < 0 THEN -n ELSE n

getFingerStates(lm) ==
    [ thumb  |-> Abs(lm[4].x - lm[0].x) > Abs(lm[3].x - lm[0].x),
      index  |-> distToWrist2(lm, 8) > distToWrist2(lm, 6),
      middle |-> distToWrist2(lm, 12) > distToWrist2(lm, 10),
      ring   |-> distToWrist2(lm, 16) > distToWrist2(lm, 14),
      pinky  |-> distToWrist2(lm, 20) > distToWrist2(lm, 18) ]

fingerCountOf(f) ==
    (IF f.index THEN 1 ELSE 0) + (IF f.middle THEN 1 ELSE 0)
    + (IF f.ring THEN 1 ELSE 0) + (IF f.pinky THEN 1 ELSE 0)

classify(f) ==
    LET fingerCount == fingerCountOf(f) IN
    IF f.index /\ ~f.middle /\ ~f.ring /\ ~f.pinky THEN "POINTING_UP"
    ELSE IF f.index /\ f.middle /\ ~f.ring /\ ~f.pinky THEN "PEACE_SIGN"
    ELSE IF f.thumb /\ ~f.index /\ ~f.middle /\ ~f.ring /\ ~f.pinky THEN "THUMBS_UP"
    ELSE IF f.index /\ ~f.middle /\ ~f.ring /\ f.pinky THEN "ROCK_ON"
    ELSE IF f.index /\ f.middle /\ f.ring /\ ~f.pinky THEN "THREE_FINGERS"
    ELSE IF fingerCount = 0 /\ ~f.thumb THEN "CLOSED_FIST"
    ELSE IF fingerCount = 4 THEN "OPEN_PALM"
    ELSE IF fingerCount = 4 /\ ~f.thumb THEN "FOUR_FINGERS"
    ELSE IF fingerCount >= 1 /\ fingerCount <= 4
         THEN CASE fingerCount = 1 -> "FINGERS_1"
                [] fingerCount = 2 -> "FINGERS_2"
                [] fingerCount = 3 -> "FINGERS_3"
                [] OTHER -> "FINGERS_4"
    ELSE "UNKNOWN"

\* Reading .x of an undefined landmark throws; nothing in recognizeGesture
\* catches it.
TypeError == "TypeError"

\* All landmark reads come before the first return.
recognizeGesture(lm) ==
    IF \E i \in LandmarkIdx : i \notin DOMAIN lm
    THEN TypeError
    ELSE classify(getFingerStates(lm))

-----------------------------------------------------------------------------
(* GestureRecognizer.recognizeGestureWithHold                              *)
(* The recognizer fields are passed and returned as a record               *)
(* [current, start, confirmed]; `ret` is the returned label.               *)

\* Mutant: a new raw label is confirmed on the call that first observes it.
recognizeGestureWithHold_ConfirmAtOnce(rec, rawGesture, now) ==
    IF rawGesture # rec.current
    THEN [current |-> rawGesture, start |-> now, confirmed |-> rawGesture,
          ret |-> rawGesture]
    ELSE IF now - rec.start >= HOLD_THRESHOLD_MS
    THEN [current |-> rec.current, start |-> rec.start, confirmed |-> rawGesture,
          ret |-> rawGesture]
    ELSE [current |-> rec.current, start |-> rec.start, confirmed |-> rec.confirmed,
          ret |-> rec.confirmed]

\* Mutant: a new raw label resets the confirmed label to UNKNOWN.
recognizeGestureWithHold_ResetOnChange(rec, rawGesture, now) ==
    IF rawGesture # rec.current
    THEN [current |-> rawGesture, start |-> now, confirmed |-> "UNKNOWN",
          ret |-> "UNKNOWN"]
    ELSE IF now - rec.start >= HOLD_THRESHOLD_MS
    THEN [current |-> rec.current, start |-> rec.start, confirmed |-> rawGesture,
          ret |-> rawGesture]
    ELSE [current |-> rec.current, start |-> rec.start, confirmed |-> rec.confirmed,
          ret |-> rec.confirmed]

\* Mutant: a new raw label does not restart the hold timer.
recognizeGestureWithHold_KeepStart(rec, rawGesture, now) ==
    IF rawGesture # rec.current
    THEN [current |-> rawGesture, start |-> rec.start, confirmed |-> rec.confirmed,
          ret |-> rec.confirmed]
    ELSE IF now - rec.start >= HOLD_THRESHOLD_MS
    THEN [current |-> rec.current, start |-> rec.start, confirmed |-> rawGesture,
          ret |-> rawGesture]
    ELSE [current |-> rec.current, start |-> rec.start, confirmed |-> rec.confirmed,
          ret |-> rec.confirmed]

\* Mutant: a run confirms only after more than HOLD_THRESHOLD_MS.
recognizeGestureWithHold_StrictThreshold(rec, rawGesture, now) ==
    IF rawGesture # rec.current
    THEN [current |-> rawGesture, start |-> now, confirmed |-> rec.confirmed,
          ret |-> rec.confirmed]
    ELSE IF now - rec.start > HOLD_THRESHOLD_MS
    THEN [current |-> rec.current, start |-> rec.start, confirmed |-> rawGesture,
          ret |-> rawGesture]
    ELSE [current |-> rec.current, start |-> rec.start, confirmed |-> rec.confirmed,
          ret |-> rec.confirmed]

recognizeGestureWithHold(rec, rawGesture, now) ==
    IF rawGesture # rec.current
    THEN [current |-> rawGesture, start |-> now, confirmed |-> rec.confirmed,
          ret |-> rec.confirmed]
    ELSE IF now - rec.start >= HOLD_THRESHOLD_MS
    THEN [current |-> rec.current, start |-> rec.start, confirmed |-> rawGesture,
          ret |-> rawGesture]
    ELSE [current |-> rec.current, start |-> rec.start, confirmed |-> rec.confirmed,
          ret |-> rec.confirmed]

Recognizer == [current |-> currentGesture, start |-> gestureStartTime,
               confirmed |-> confirmedGesture]

\* The run of identical raw labels over the calls made so far, kept apart
\* from the recognizer's own fields: the raw label of the last call, the raw
\* label stored before it, the time of the first call of the run, and how
\* often the confirmed label changed during the run; and the time of the first
\* call since the run began or since the last frame that made no call.
GatedKinds == {"noface", "nohands", "nohand"}

HoldAfter(h, rawGesture, now, stored, before, after, gap) ==
    LET sameRun == h.calls > 0 /\ h.label = rawGesture IN
    [ label    |-> rawGesture,
      contStart |-> IF sameRun /\ ~gap THEN h.contStart ELSE now,
      stored   |-> stored,
      start    |-> IF sameRun THEN h.start ELSE now,
      calls    |-> IF h.calls < 2 THEN h.calls + 1 ELSE 2,
      changes  |-> (IF sameRun THEN h.changes ELSE 0) + (IF before # after THEN 1 ELSE 0),
      newRun   |-> ~sameRun,
      before   |-> before,
      after    |-> after,
      at       |-> now ]

-----------------------------------------------------------------------------
(* Pointer projection                                                      *)

Clamp(lo, hi, v) == IF v < lo THEN lo ELSE IF v > hi THEN hi ELSE v

\* checkForceGrip: index curled and at least three fingers partially curled
\* (tip 0.01 .. 0.08 below its pip).
checkForceGrip(lm) ==
    LET partial(tipIdx, pipIdx) ==
            IF lm[tipIdx].y - lm[pipIdx].y > 1 /\ lm[tipIdx].y - lm[pipIdx].y < 8 THEN 1 ELSE 0
        partialCount == partial(8, 6) + partial(12, 10) + partial(16, 14) + partial(20, 18)
    IN  IF lm[8].y < lm[6].y THEN FALSE ELSE partialCount >= 3

\* checkPinch: thumb tip within PINCH_THRESHOLD (0.06) of the index tip.
checkPinch(lm) ==
    (lm[4].x - lm[8].x) * (lm[4].x - lm[8].x) + (lm[4].y - lm[8].y) * (lm[4].y - lm[8].y)
        < PINCH_THRESHOLD * PINCH_THRESHOLD

\* The raycast target in pixels: tip + (tip - wrist) * factor, x mirrored,
\* scaled to the viewport and clamped.
Raycast(lm) ==
    LET dx == lm[8].x - lm[0].x
        dy == lm[8].y - lm[0].y
        projX == RaycastDen * lm[8].x + RaycastNum * dx   \* times RaycastDen
        projY == RaycastDen * lm[8].y + RaycastNum * dy
    IN  [ x |-> Clamp(0, viewport.w, ((100 * RaycastDen - projX) * viewport.w) \div (100 * RaycastDen)),
          y |-> Clamp(0, viewport.h, (projY * viewport.h) \div (100 * RaycastDen)) ]

\* Mutant: the precision step goes past the target.
updatePointer_Overshoot(lm, precision, last) ==
    LET target == Raycast(lm)
        slow == loopSettings.precisionSlowdown
    IN  IF precision /\ last # NoPointer
        THEN [ x |-> last.x + ((target.x - last.x) * (slow.num + slow.den)) \div slow.den,
               y |-> last.y + ((target.y - last.y) * (slow.num + slow.den)) \div slow.den ]
        ELSE target

\* updatePointer: the new value of lastPointerRef and pointerPosRef, with the
\* precisionSlowdown of the settings its closure sees; whole pixels.
updatePointer(lm, precision, last) ==
    LET target == Raycast(lm)
        slow == loopSettings.precisionSlowdown
    IN  IF precision /\ last # NoPointer
        THEN [ x |-> last.x + ((target.x - last.x) * slow.num) \div slow.den,
               y |-> last.y + ((target.y - last.y) * slow.num) \div slow.den ]
        ELSE target

-----------------------------------------------------------------------------
(* executeGestureAction                                                    *)

\* Date.now() at the current frame tick.
DateNow(t) == EpochOffset + t

\* actionFeedback holding null.
NoFeedback == [label |-> << >>, success |-> FALSE]

\* Mutant: the real-execution branch is taken whatever the DRY_RUN flag.
executeGestureAction_IgnoresDryRun(gesture, now, lastActionTime) ==
    IF now - lastActionTime < ACTION_COOLDOWN_MS
    THEN [lastActionTime |-> lastActionTime, dispatched |-> FALSE, feedback |-> NoFeedback,
          invoke |-> << >>]
    ELSE IF gesture \notin DOMAIN GESTURE_ACTIONS
    THEN [lastActionTime |-> lastActionTime, dispatched |-> FALSE, feedback |-> NoFeedback,
          invoke |-> << >>]
    ELSE [lastActionTime |-> now, dispatched |-> TRUE, feedback |-> NoFeedback,
          invoke |-> IF GESTURE_ACTIONS[gesture].action = "screenshot"
                     THEN <<"take-screenshot">>
                     ELSE <<"launch-app", GESTURE_ACTIONS[gesture].app>>]

\* Mutant: the dispatch time is recorded only after the invoke call has settled.
executeGestureAction_RecordAfterAwait(gesture, now, lastActionTime) ==
    IF now - lastActionTime < ACTION_COOLDOWN_MS
    THEN [lastActionTime |-> lastActionTime, dispatched |-> FALSE, feedback |-> NoFeedback,
          invoke |-> << >>]
    ELSE IF gesture \notin DOMAIN GESTURE_ACTIONS
    THEN [lastActionTime |-> lastActionTime, dispatched |-> FALSE, feedback |-> NoFeedback,
          invoke |-> << >>]
    ELSE [lastActionTime |-> lastActionTime, dispatched |-> TRUE, feedback |-> NoFeedback,
          invoke |-> IF GESTURE_ACTIONS[gesture].action = "screenshot"
                     THEN <<"take-screenshot">>
                     ELSE <<"launch-app", GESTURE_ACTIONS[gesture].app>>]

\* Mutant: an accepted call does not record the dispatch time.
executeGestureAction_NoRecord(gesture, now, lastActionTime) ==
    IF now - lastActionTime < ACTION_COOLDOWN_MS
    THEN [lastActionTime |-> lastActionTime, dispatched |-> FALSE, feedback |-> NoFeedback,
          invoke |-> << >>]
    ELSE IF gesture \notin DOMAIN GESTURE_ACTIONS
    THEN [lastActionTime |-> lastActionTime, dispatched |-> FALSE, feedback |-> NoFeedback,
          invoke |-> << >>]
    ELSE [lastActionTime |-> lastActionTime, dispatched |-> TRUE, feedback |-> [label |-> <<"WOULD">>, success |-> TRUE],
          invoke |-> << >>]

\* Mutant: the cooldown test is <= instead of <.
executeGestureAction_StrictCooldown(gesture, now, lastActionTime) ==
    IF now - lastActionTime <= ACTION_COOLDOWN_MS
    THEN [lastActionTime |-> lastActionTime, dispatched |-> FALSE, feedback |-> NoFeedback,
          invoke |-> << >>]
    ELSE IF gesture \notin DOMAIN GESTURE_ACTIONS
    THEN [lastActionTime |-> lastActionTime, dispatched |-> FALSE, feedback |-> NoFeedback,
          invoke |-> << >>]
    ELSE [lastActionTime |-> now, dispatched |-> TRUE, feedback |-> [label |-> <<"WOULD">>, success |-> TRUE],
          invoke |-> << >>]

\* Mutant: the dispatch time is recorded before the cooldown test rejects.
executeGestureAction_RecordOnReject(gesture, now, lastActionTime) ==
    IF now - lastActionTime < ACTION_COOLDOWN_MS
    THEN [lastActionTime |-> now, dispatched |-> FALSE, feedback |-> NoFeedback,
          invoke |-> << >>]
    ELSE IF gesture \notin DOMAIN GESTURE_ACTIONS
    THEN [lastActionTime |-> lastActionTime, dispatched |-> FALSE, feedback |-> NoFeedback,
          invoke |-> << >>]
    ELSE [lastActionTime |-> now, dispatched |-> TRUE, feedback |-> [label |-> <<"WOULD">>, success |-> TRUE],
          invoke |-> << >>]

\* Mutant: the dispatch time is recorded before the action table is consulted.
executeGestureAction_RecordUnmapped(gesture, now, lastActionTime) ==
    IF now - lastActionTime < ACTION_COOLDOWN_MS
    THEN [lastActionTime |-> lastActionTime, dispatched |-> FALSE, feedback |-> NoFeedback,
          invoke |-> << >>]
    ELSE IF gesture \notin DOMAIN GESTURE_ACTIONS
    THEN [lastActionTime |-> now, dispatched |-> FALSE, feedback |-> NoFeedback,
          invoke |-> << >>]
    ELSE [lastActionTime |-> now, dispatched |-> TRUE,
          feedback |-> [label |-> <<"WOULD">>, success |-> TRUE],
          invoke |-> << >>]

\* executeGestureAction up to the first await: the new lastActionTimeRef,
\* whether the call went past both guards, the feedback it sets at once (DRY_RUN)
\* and the channel and argument it invokes on the main process (not DRY_RUN).
executeGestureAction(gesture, now, lastActionTime) ==
    IF now - lastActionTime < ACTION_COOLDOWN_MS
    THEN [lastActionTime |-> lastActionTime, dispatched |-> FALSE, feedback |-> NoFeedback,
          invoke |-> << >>]
    ELSE IF gesture \notin DOMAIN GESTURE_ACTIONS
    THEN [lastActionTime |-> lastActionTime, dispatched |-> FALSE, feedback |-> NoFeedback,
          invoke |-> << >>]
    ELSE [lastActionTime |-> now, dispatched |-> TRUE,
          feedback |-> IF ~dryRun THEN NoFeedback
                       ELSE IF GESTURE_ACTIONS[gesture].action = "screenshot"
                       THEN [label |-> <<"WOULD: TAKE SCREENSHOT">>, success |-> TRUE]
                       ELSE [label |-> <<"WOULD LAUNCH: ", GESTURE_ACTIONS[gesture].label>>,
                             success |-> TRUE],
          invoke   |-> IF dryRun THEN << >>
                       ELSE IF GESTURE_ACTIONS[gesture].action = "screenshot"
                       THEN <<"take-screenshot">>
                       ELSE <<"launch-app", GESTURE_ACTIONS[gesture].app>>]

-----------------------------------------------------------------------------
(* App with aim / command mode: the frame loop                             *)

\* updateDisplay, run by the frame loop's closure: throttled copy of the
\* refs into displayState.
updateDisplay(now, face, gestureRef, frozen, pointer, precision, pending) ==
    IF now - lastDisplayUpdateRef < DISPLAY_UPDATE_INTERVAL
    THEN UNCHANGED << lastDisplayUpdateRef, displayState >>
    ELSE /\ lastDisplayUpdateRef' = now
         /\ displayState' = [ faceDetected   |-> face,
                              currentGesture |-> gestureRef,
                              pointerPos     |-> IF loopCommandMode THEN frozen ELSE pointer,
                              isPrecisionMode |-> precision,
                              commandMode    |-> loopCommandMode,
                              pendingCommand |-> pending ]

ActVars == << actionFeedback, lastActionTimeRef, dispatchLog >>

LoopVars == << rafPending, awaiting >>

IpcVars == << dryRun, ipcCalls >>

SettingsVars == << settings, loopSettings >>

ClassifyVars == << handPose, classified >>

\* The handedness category looked for, from the settings the running closure
\* sees: MediaPipe reports the mirrored category.
targetHandedness == IF loopSettings.activeHand = "right" THEN "left" ELSE "right"

\* Index of the first hand with the target handedness, 0 if there is none.
activeHandIndex(hands) ==
    LET found == {i \in 1..Len(hands) : hands[i].handedness = targetHandedness} IN
    IF found = {} THEN 0 ELSE CHOOSE i \in found : \A j \in found : i <= j

\* Mutant: a frame without a face restarts the recognizer's hold.
PredictWebcamNoFace_ResetsHold ==
    \E dt \in Steps :
        /\ rafPending > 0
        /\ clock + dt <= MaxClock
        /\ clock' = clock + dt
        /\ faceDetected' = FALSE
        /\ currentGesture' = "UNKNOWN"
        /\ gestureStartTime' = clock'
        /\ currentGestureRef' = "UNKNOWN"
        /\ pointerPosRef' = NoPointer
        /\ updateDisplay(clock', FALSE, "UNKNOWN", frozenPointerRef, NoPointer,
                         isPrecisionModeRef, pendingCommandRef)
        /\ tick' = [ kind |-> "noface", branch |-> "none", modeBefore |-> commandMode,
                     lastBefore |-> lastGestureRef, gesture |-> Null,
                     pointerUpdated |-> FALSE, pointerBefore |-> pointerPosRef,
                     frozenBefore |-> frozenPointerRef,
                     handedness |-> Null, activeHand |-> settings.activeHand ]
        /\ UNCHANGED << confirmedGesture, commandMode,
                        frozenPointerRef, lastPointerRef, isPrecisionModeRef,
                        lastGestureRef, pendingCommandRef, loopCommandMode, hold, trig >>
        /\ UNCHANGED SettingsVars
        /\ UNCHANGED ClassifyVars
        /\ UNCHANGED LoopVars
        /\ UNCHANGED << viewport, ServiceVars >>
        /\ UNCHANGED IpcVars
        /\ UNCHANGED ActVars

\* Mutant: losing the face leaves COMMAND and clears the frozen pointer.
PredictWebcamNoFace_LeavesCommand ==
    \E dt \in Steps :
        /\ rafPending > 0
        /\ clock + dt <= MaxClock
        /\ clock' = clock + dt
        /\ faceDetected' = FALSE
        /\ currentGestureRef' = "UNKNOWN"
        /\ pointerPosRef' = NoPointer
        /\ commandMode' = FALSE
        /\ frozenPointerRef' = NoPointer
        /\ updateDisplay(clock', FALSE, "UNKNOWN", NoPointer, NoPointer,
                         isPrecisionModeRef, pendingCommandRef)
        /\ tick' = [ kind |-> "noface", branch |-> "none", modeBefore |-> commandMode,
                     lastBefore |-> lastGestureRef, gesture |-> Null,
                     pointerUpdated |-> FALSE, pointerBefore |-> pointerPosRef,
                     frozenBefore |-> frozenPointerRef,
                     handedness |-> Null, activeHand |-> settings.activeHand ]
        /\ UNCHANGED << currentGesture, gestureStartTime, confirmedGesture,
                        lastPointerRef, isPrecisionModeRef,
                        lastGestureRef, pendingCommandRef, loopCommandMode, hold, trig >>
        /\ UNCHANGED SettingsVars
        /\ UNCHANGED ClassifyVars
        /\ UNCHANGED LoopVars
        /\ UNCHANGED << viewport, ServiceVars >>
        /\ UNCHANGED IpcVars
        /\ UNCHANGED ActVars

\* No face: detect() returns null, the gesture and pointer refs are cleared.
PredictWebcamNoFace ==
    \E dt \in Steps :
        /\ rafPending > 0
        /\ clock + dt <= MaxClock
        /\ clock' = clock + dt
        /\ faceDetected' = FALSE
        /\ currentGestureRef' = "UNKNOWN"
        /\ pointerPosRef' = NoPointer
        /\ updateDisplay(clock', FALSE, "UNKNOWN", frozenPointerRef, NoPointer,
                         isPrecisionModeRef, pendingCommandRef)
        /\ tick' = [ kind |-> "noface", branch |-> "none", modeBefore |-> commandMode,
                     lastBefore |-> lastGestureRef, gesture |-> Null,
                     pointerUpdated |-> FALSE, pointerBefore |-> pointerPosRef,
                     frozenBefore |-> frozenPointerRef,
                     handedness |-> Null, activeHand |-> settings.activeHand ]
        /\ UNCHANGED << currentGesture, gestureStartTime, confirmedGesture, commandMode,
                        frozenPointerRef, lastPointerRef, isPrecisionModeRef,
                        lastGestureRef, pendingCommandRef, loopCommandMode, hold, trig >>
        /\ UNCHANGED SettingsVars
        /\ UNCHANGED ClassifyVars
        /\ UNCHANGED LoopVars
        /\ UNCHANGED << viewport, ServiceVars >>
        /\ UNCHANGED IpcVars
        /\ UNCHANGED ActVars

\* A face but no hand at all: only the display is refreshed.
PredictWebcamNoHands ==
    \E dt \in Steps :
        /\ rafPending > 0
        /\ clock + dt <= MaxClock
        /\ clock' = clock + dt
        /\ faceDetected' = TRUE
        /\ updateDisplay(clock', TRUE, currentGestureRef, frozenPointerRef, pointerPosRef,
                         isPrecisionModeRef, pendingCommandRef)
        /\ tick' = [ kind |-> "nohands", branch |-> "none", modeBefore |-> commandMode,
                     lastBefore |-> lastGestureRef, gesture |-> Null,
                     pointerUpdated |-> FALSE, pointerBefore |-> pointerPosRef,
                     frozenBefore |-> frozenPointerRef,
                     handedness |-> Null, activeHand |-> settings.activeHand ]
        /\ UNCHANGED << currentGesture, gestureStartTime, confirmedGesture, commandMode,
                        currentGestureRef, frozenPointerRef, pointerPosRef, lastPointerRef,
                        isPrecisionModeRef, lastGestureRef, pendingCommandRef,
                        loopCommandMode, hold, trig >>
        /\ UNCHANGED SettingsVars
        /\ UNCHANGED ClassifyVars
        /\ UNCHANGED LoopVars
        /\ UNCHANGED << viewport, ServiceVars >>
        /\ UNCHANGED IpcVars
        /\ UNCHANGED ActVars

\* Hands, but none of the active handedness: the frame is skipped.
PredictWebcamNoActiveHand ==
    \E dt \in Steps, hands \in FrameHands :
        /\ Len(hands) > 0
        /\ activeHandIndex(hands) = 0
        /\ rafPending > 0
        /\ clock + dt <= MaxClock
        /\ clock' = clock + dt
        /\ faceDetected' = TRUE
        /\ pointerPosRef' = NoPointer
        /\ currentGestureRef' = "UNKNOWN"
        /\ updateDisplay(clock', TRUE, "UNKNOWN", frozenPointerRef, NoPointer,
                         isPrecisionModeRef, pendingCommandRef)
        /\ tick' = [ kind |-> "nohand", branch |-> "none", modeBefore |-> commandMode,
                     lastBefore |-> lastGestureRef, gesture |-> Null,
                     pointerUpdated |-> FALSE, pointerBefore |-> pointerPosRef,
                     frozenBefore |-> frozenPointerRef,
                     handedness |-> Null, activeHand |-> settings.activeHand ]
        /\ UNCHANGED << currentGesture, gestureStartTime, confirmedGesture, commandMode,
                        frozenPointerRef, lastPointerRef, isPrecisionModeRef,
                        lastGestureRef, pendingCommandRef, loopCommandMode, hold, trig >>
        /\ UNCHANGED SettingsVars
        /\ UNCHANGED ClassifyVars
        /\ UNCHANGED LoopVars
        /\ UNCHANGED << viewport, ServiceVars >>
        /\ UNCHANGED IpcVars
        /\ UNCHANGED ActVars

\* What the confirmed label has triggered since it last changed: how many
\* frames called setCommandMode / executeGestureAction (counted up to 2), and
\* whether the frame on which the label became confirmed was one of them.
TrigAfter(t, before, after, fired) ==
    IF before # after
    THEN [n |-> IF fired THEN 1 ELSE 0, onFirst |-> fired]
    ELSE [n |-> IF fired /\ t.n < 2 THEN t.n + 1 ELSE t.n, onFirst |-> t.onFirst]

\* The command-mode logic of one frame, for the value `mode` of commandMode
\* that the running closure sees: the new commandMode state, frozenPointerRef
\* and pendingCommandRef, and whether setCommandMode was called.
CommandModeLogic(mode, gesture, last, state, frozen, pointer) ==
    IF mode
    THEN IF gesture \in DOMAIN COMMAND_MODE_ACTIONS
         THEN IF gesture = "POINTING_UP" /\ gesture # last
              THEN [commandMode |-> FALSE, frozen |-> NoPointer, pending |-> Null,
                    fired |-> TRUE]
              ELSE [commandMode |-> state, frozen |-> frozen,
                    pending |-> COMMAND_MODE_ACTIONS[gesture].label, fired |-> FALSE]
         ELSE [commandMode |-> state, frozen |-> frozen, pending |-> Null,
               fired |-> FALSE]
    ELSE IF gesture = "OPEN_PALM" /\ gesture # last
         THEN [commandMode |-> TRUE, frozen |-> pointer, pending |-> "COMMAND MODE",
               fired |-> TRUE]
         ELSE [commandMode |-> state, frozen |-> frozen, pending |-> Null,
               fired |-> FALSE]

\* The active hand is present: debounce, command-mode logic, pointer.
HandFrame(dt, hands) ==
        /\ activeHandIndex(hands) > 0
        /\ rafPending > 0
        /\ clock + dt <= MaxClock
        /\ clock' = clock + dt
        /\ faceDetected' = TRUE
        /\ \E landmarks \in {hands[activeHandIndex(hands)].landmarks} :
           \E raw \in {recognizeGesture(landmarks)} \ {TypeError} :
           \E rec \in {recognizeGestureWithHold(Recognizer, raw, clock + dt)} :
           \E gesture \in {rec.ret} :
           \E logic \in {CommandModeLogic(loopCommandMode, gesture, lastGestureRef,
                                          commandMode, frozenPointerRef, pointerPosRef)} :
           \E precision \in {checkForceGrip(landmarks)} :
           \E pointer \in {updatePointer(landmarks, precision, lastPointerRef)} :
               /\ currentGesture' = rec.current
               /\ gestureStartTime' = rec.start
               /\ confirmedGesture' = rec.confirmed
               /\ hold' = HoldAfter(hold, raw, clock + dt, currentGesture, confirmedGesture,
                                    rec.confirmed, tick.kind \in GatedKinds)
               /\ currentGestureRef' = gesture
               /\ commandMode' = logic.commandMode
               /\ frozenPointerRef' = logic.frozen
               /\ pendingCommandRef' = logic.pending
               /\ lastGestureRef' = gesture
               /\ IF ~loopCommandMode
                  THEN /\ isPrecisionModeRef' = precision
                       /\ lastPointerRef' = pointer
                       /\ pointerPosRef' = pointer
                  ELSE UNCHANGED << isPrecisionModeRef, lastPointerRef, pointerPosRef >>
               /\ updateDisplay(clock', TRUE, gesture, frozenPointerRef', pointerPosRef',
                                isPrecisionModeRef', pendingCommandRef')
               /\ tick' = [ kind |-> "hand",
                            branch |-> IF loopCommandMode THEN "COMMAND" ELSE "AIM",
                            modeBefore |-> commandMode,
                            lastBefore |-> lastGestureRef, gesture |-> gesture,
                            pointerUpdated |-> ~loopCommandMode,
                            pointerBefore |-> pointerPosRef,
                            frozenBefore |-> frozenPointerRef,
                            handedness |-> hands[activeHandIndex(hands)].handedness,
                            activeHand |-> settings.activeHand ]
               /\ trig' = TrigAfter(trig, confirmedGesture, rec.confirmed, logic.fired)
        /\ UNCHANGED loopCommandMode
        /\ UNCHANGED SettingsVars
        /\ UNCHANGED ClassifyVars
        /\ UNCHANGED LoopVars
        /\ UNCHANGED << viewport, ServiceVars >>
        /\ UNCHANGED IpcVars

\* Mutant: the frame loop also calls executeGestureAction on every rising edge,
\* whatever the mode.
PredictWebcamHand_Dispatching ==
    \E dt \in Steps, hands \in FrameHands :
        /\ HandFrame(dt, hands)
        /\ IF currentGestureRef' # lastGestureRef /\ currentGestureRef' # "UNKNOWN"
           THEN \E res \in {executeGestureAction(currentGestureRef', DateNow(clock + dt),
                                                lastActionTimeRef)} :
                    /\ lastActionTimeRef' = res.lastActionTime
                    /\ actionFeedback' = IF res.feedback # NoFeedback THEN res.feedback
                                         ELSE actionFeedback
                    /\ dispatchLog' = Append(dispatchLog,
                                             [gesture |-> currentGestureRef',
                                              at |-> DateNow(clock + dt),
                                              ok |-> res.dispatched])
           ELSE UNCHANGED ActVars

PredictWebcamHand ==
    \E dt \in Steps, hands \in FrameHands :
        /\ HandFrame(dt, hands)
        /\ UNCHANGED ActVars

\* The LEFT / RIGHT buttons of the settings panel: setSettings re-renders the
\* component; the frame loop keeps running the closure it was started with.
SetActiveHand ==
    \E h \in {"left", "right"} :
        /\ h # settings.activeHand
        /\ settings' = [settings EXCEPT !.activeHand = h]
        /\ UNCHANGED << clock, faceDetected, currentGesture, gestureStartTime,
                        confirmedGesture, commandMode, displayState, currentGestureRef,
                        frozenPointerRef, pointerPosRef, lastPointerRef,
                        isPrecisionModeRef, lastGestureRef, pendingCommandRef,
                        lastDisplayUpdateRef, loopCommandMode, loopSettings, tick, hold,
                        trig >>
        /\ UNCHANGED ClassifyVars
        /\ UNCHANGED LoopVars
        /\ UNCHANGED << viewport, ServiceVars >>
        /\ UNCHANGED IpcVars
        /\ UNCHANGED ActVars

-----------------------------------------------------------------------------
(* App with gesture actions: the frame loop                                *)

\* The clock bound of the gesture-action loop for the build at hand.
MaxClockOfAct == IF dryRun THEN MaxClockAct ELSE MaxClockLive

\* Mutant: the test in front of executeGestureAction ignores the last gesture.
isNewGesture_Level(gesture, last) == gesture # "UNKNOWN"

\* The edge test in front of executeGestureAction.
isNewGesture(gesture, last) == gesture # last /\ gesture # "UNKNOWN"

AimVars == << commandMode, displayState, frozenPointerRef, pendingCommandRef,
              lastDisplayUpdateRef, loopCommandMode >>

ActNoFace ==
    \E dt \in StepsAct :
        /\ rafPending > 0
        /\ clock + dt <= MaxClockOfAct
        /\ clock' = clock + dt
        /\ faceDetected' = FALSE
        /\ currentGestureRef' = "UNKNOWN"
        /\ tick' = [ kind |-> "noface", lastBefore |-> lastGestureRef, gesture |-> Null,
                     attempt |-> FALSE, dispatched |-> FALSE,
                     lastActionBefore |-> lastActionTimeRef ]
        /\ UNCHANGED << currentGesture, gestureStartTime, confirmedGesture, pointerPosRef,
                        lastPointerRef, isPrecisionModeRef, lastGestureRef, hold, trig >>
        /\ UNCHANGED ActVars
        /\ UNCHANGED AimVars
        /\ UNCHANGED SettingsVars
        /\ UNCHANGED ClassifyVars
        /\ UNCHANGED LoopVars
        /\ UNCHANGED << viewport, ServiceVars >>
        /\ UNCHANGED IpcVars

ActNoHands ==
    \E dt \in StepsAct :
        /\ rafPending > 0
        /\ clock + dt <= MaxClockOfAct
        /\ clock' = clock + dt
        /\ faceDetected' = TRUE
        /\ tick' = [ kind |-> "nohands", lastBefore |-> lastGestureRef, gesture |-> Null,
                     attempt |-> FALSE, dispatched |-> FALSE,
                     lastActionBefore |-> lastActionTimeRef ]
        /\ UNCHANGED << currentGesture, gestureStartTime, confirmedGesture, currentGestureRef,
                        pointerPosRef, lastPointerRef, isPrecisionModeRef, lastGestureRef,
                        hold, trig >>
        /\ UNCHANGED ActVars
        /\ UNCHANGED AimVars
        /\ UNCHANGED SettingsVars
        /\ UNCHANGED ClassifyVars
        /\ UNCHANGED LoopVars
        /\ UNCHANGED << viewport, ServiceVars >>
        /\ UNCHANGED IpcVars

\* The first reported hand is used, whatever its handedness.
ActHand ==
    \E dt \in StepsAct, hands \in FrameHandsAct :
        /\ Len(hands) > 0
        /\ rafPending > 0
        /\ clock + dt <= MaxClockOfAct
        /\ clock' = clock + dt
        /\ faceDetected' = TRUE
        /\ \E landmarks \in {hands[1].landmarks} :
           \E raw \in {recognizeGesture(landmarks)} :
           \E rec \in {recognizeGestureWithHold(Recognizer, raw, clock + dt)} :
           \E gesture \in {rec.ret} :
           \E attempt \in {isNewGesture(gesture, lastGestureRef)} :
           \E res \in {executeGestureAction(gesture, DateNow(clock + dt), lastActionTimeRef)} :
           \E precision \in {checkPinch(landmarks)} :
           \E pointer \in {updatePointer(landmarks, precision, lastPointerRef)} :
               /\ currentGesture' = rec.current
               /\ gestureStartTime' = rec.start
               /\ confirmedGesture' = rec.confirmed
               /\ UNCHANGED hold
               /\ trig' = TrigAfter(trig, confirmedGesture, rec.confirmed, attempt)
               /\ ipcCalls' = IF attempt /\ res.invoke # << >>
                               THEN Append(ipcCalls,
                                           [invoke |-> res.invoke, gesture |-> gesture,
                                            at |-> DateNow(clock + dt), state |-> "pending"])
                               ELSE ipcCalls
               /\ currentGestureRef' = gesture
               /\ IF attempt
                  THEN /\ lastActionTimeRef' = res.lastActionTime
                       /\ actionFeedback' = IF res.feedback # NoFeedback THEN res.feedback
                                            ELSE actionFeedback
                       /\ dispatchLog' =
                            IF ~res.dispatched /\ dispatchLog # << >>
                               /\ ~dispatchLog[Len(dispatchLog)].ok
                            THEN dispatchLog
                            ELSE Append(dispatchLog,
                                        [gesture |-> gesture, at |-> DateNow(clock + dt),
                                         ok |-> res.dispatched])
                  ELSE UNCHANGED ActVars
               /\ lastGestureRef' = gesture
               /\ isPrecisionModeRef' = precision
               /\ lastPointerRef' = pointer
               /\ pointerPosRef' = pointer
               /\ tick' = [ kind |-> "hand", lastBefore |-> lastGestureRef,
                            gesture |-> gesture, attempt |-> attempt,
                            dispatched |-> attempt /\ res.dispatched,
                            lastActionBefore |-> lastActionTimeRef ]
        /\ UNCHANGED AimVars
        /\ UNCHANGED SettingsVars
        /\ UNCHANGED ClassifyVars
        /\ UNCHANGED LoopVars
        /\ UNCHANGED << viewport, ServiceVars >>
        /\ UNCHANGED dryRun

-----------------------------------------------------------------------------
(* Specifications                                                          *)

\* After construction: the recognizer's field initialisers, useState / useRef
\* initial values, and the frame loop started from the first render, whose
\* closure binds commandMode to its initial value.
-----------------------------------------------------------------------------
(* config/PowerModes and BodySegmentationService                           *)

POWER_MODES == <<"OFF", "LOW", "MEDIUM", "HIGH", "ULTRA">>

\* multiplier in hundredths.
POWER_MODE_CONFIGS ==
    [ OFF    |-> [enabled |-> FALSE, architecture |-> "MobileNetV1", outputStride |-> 32,
                  multiplier |-> 50, quantBytes |-> 2, frameSkip |-> 0],
      LOW    |-> [enabled |-> TRUE, architecture |-> "MobileNetV1", outputStride |-> 32,
                  multiplier |-> 50, quantBytes |-> 2, frameSkip |-> 2],
      MEDIUM |-> [enabled |-> TRUE, architecture |-> "MobileNetV1", outputStride |-> 16,
                  multiplier |-> 75, quantBytes |-> 2, frameSkip |-> 0],
      HIGH   |-> [enabled |-> TRUE, architecture |-> "MobileNetV1", outputStride |-> 16,
                  multiplier |-> 100, quantBytes |-> 2, frameSkip |-> 0],
      ULTRA  |-> [enabled |-> TRUE, architecture |-> "ResNet50", outputStride |-> 16,
                  multiplier |-> 100, quantBytes |-> 4, frameSkip |-> 0] ]

\* The arguments loadModel passes to bodyPix.load for a configuration.
LoadArgs(config) ==
    [ architecture |-> config.architecture, outputStride |-> config.outputStride,
      multiplier |-> config.multiplier, quantBytes |-> config.quantBytes ]

\* The service after initialize('/background.png', 'MEDIUM'): model 1 is
\* loaded, net points to it (0 stands for null), no load is pending.
BodySegInitialized ==
    [ mode       |-> "MEDIUM",
      frameCount |-> 0,
      net        |-> 1,
      models     |-> <<[args |-> LoadArgs(POWER_MODE_CONFIGS["MEDIUM"]), disposed |-> FALSE]>>,
      loads      |-> {},
      calls      |-> 0 ]

InitApp ==
    /\ clock = 0
    /\ faceDetected = FALSE
    /\ currentGesture = "UNKNOWN"
    /\ gestureStartTime = 0
    /\ confirmedGesture = "UNKNOWN"
    /\ commandMode = FALSE
    /\ displayState = [ faceDetected |-> FALSE, currentGesture |-> "UNKNOWN",
                        pointerPos |-> NoPointer, isPrecisionMode |-> FALSE,
                        commandMode |-> FALSE, pendingCommand |-> Null ]
    /\ actionFeedback = NoFeedback
    /\ currentGestureRef = "UNKNOWN"
    /\ frozenPointerRef = NoPointer
    /\ pointerPosRef = NoPointer
    /\ lastPointerRef = NoPointer
    /\ isPrecisionModeRef = FALSE
    /\ lastGestureRef = "UNKNOWN"
    /\ pendingCommandRef = Null
    /\ lastDisplayUpdateRef = 0
    /\ lastActionTimeRef = 0
    /\ settings = [activeHand |-> "right",
                   precisionSlowdown |-> [num |-> SlowdownNum, den |-> SlowdownDen]]
    /\ viewport = [w |-> ViewportW, h |-> ViewportH]
    /\ rafPending = 1
    /\ awaiting = << >>
    /\ ipcCalls = << >>
    /\ network = [inflight |-> EmptyBag, sent |-> 0]
    /\ netLog = [kind |-> "init", user |-> 0, pings |-> 0]
    /\ bodySeg = BodySegInitialized
    /\ segLog = [kind |-> "init"]
    /\ loopCommandMode = commandMode
    /\ loopSettings = settings
    /\ tick = [ kind |-> "init" ]
    /\ hold = [ label |-> Null, contStart |-> 0, stored |-> "UNKNOWN", start |-> 0, calls |-> 0, changes |-> 0, newRun |-> FALSE,
                before |-> "UNKNOWN", after |-> "UNKNOWN", at |-> 0 ]
    /\ dispatchLog = << >>
    /\ trig = [n |-> 0, onFirst |-> FALSE]

Init ==
    /\ InitApp
    /\ dryRun = DRY_RUN
    /\ handPose = << >>
    /\ classified = Null

Next ==
    \/ PredictWebcamNoFace
    \/ PredictWebcamNoHands
    \/ PredictWebcamNoActiveHand
    \/ PredictWebcamHand
    \/ SetActiveHand

Spec == Init /\ [][Next]_vars

NextAct ==
    \/ ActNoFace
    \/ ActNoHands
    \/ ActHand

SpecAct == Init /\ [][NextAct]_vars

\* recognizeGesture called once on a landmark array.
InitClassify ==
    /\ InitApp
    /\ dryRun = DRY_RUN
    /\ handPose \in ClassifierInputs
    /\ classified = Null

RecognizeGesture ==
    /\ classified = Null
    /\ classified' = recognizeGesture(handPose)
    /\ UNCHANGED << clock, faceDetected, currentGesture, gestureStartTime,
                    confirmedGesture, commandMode, displayState, currentGestureRef,
                    frozenPointerRef, pointerPosRef, lastPointerRef, isPrecisionModeRef,
                    lastGestureRef, pendingCommandRef, lastDisplayUpdateRef,
                    loopCommandMode, tick, hold, trig, handPose >>
    /\ UNCHANGED SettingsVars
    /\ UNCHANGED ActVars
    /\ UNCHANGED LoopVars
    /\ UNCHANGED << viewport, ServiceVars >>
    /\ UNCHANGED IpcVars

NextClassify == RecognizeGesture

SpecClassify == InitClassify /\ [][NextClassify]_vars

-----------------------------------------------------------------------------
(* updatePointer called directly                                           *)

\* Hands with all fingers curled (force grip) at two places, and a pointing hand.
PointerPoses == {Hand(50, 80, {}), Hand(20, 40, {}), PointA}

Viewports == {[w |-> ViewportW, h |-> ViewportH],
              [w |-> ViewportW \div 2, h |-> ViewportH \div 2]}

\* Values of the Precision Speed slider (0.01 to 1 in steps of 0.01) and the default.
SlowdownSettings == {[num |-> 1, den |-> 100], [num |-> 50, den |-> 100],
                     [num |-> 100, den |-> 100],
                     [num |-> SlowdownNum, den |-> SlowdownDen]}

PointerRest == << faceDetected, currentGesture, gestureStartTime, confirmedGesture,
                  commandMode, displayState, currentGestureRef, frozenPointerRef,
                  lastGestureRef, pendingCommandRef, lastDisplayUpdateRef,
                  loopCommandMode, hold, trig >>

UpdatePointer ==
    \E lm \in PointerPoses :
        /\ clock + 100 <= MaxClockPointer
        /\ clock' = clock + 100
        /\ \E precision \in {checkForceGrip(lm)} :
           \E pointer \in {updatePointer(lm, precision, lastPointerRef)} :
               /\ isPrecisionModeRef' = precision
               /\ lastPointerRef' = pointer
               /\ pointerPosRef' = pointer
               /\ tick' = [ kind |-> "pointer", precision |-> precision,
                            target |-> Raycast(lm), before |-> lastPointerRef,
                            viewport |-> viewport ]
        /\ UNCHANGED PointerRest
        /\ UNCHANGED << SettingsVars, ClassifyVars, ActVars, LoopVars, IpcVars, viewport, ServiceVars >>

\* The window is resized.
Resize ==
    \E vp \in Viewports :
        /\ vp # viewport
        /\ viewport' = vp
        /\ UNCHANGED ServiceVars
        /\ UNCHANGED PointerRest
        /\ UNCHANGED << clock, isPrecisionModeRef, lastPointerRef, pointerPosRef, tick >>
        /\ UNCHANGED << SettingsVars, ClassifyVars, ActVars, LoopVars, IpcVars >>

\* The Precision Speed slider is moved; the updatePointer callback of the new
\* render is the one called next.
SetPrecisionSlowdown ==
    \E v \in SlowdownSettings :
        /\ v # settings.precisionSlowdown
        /\ settings' = [settings EXCEPT !.precisionSlowdown = v]
        /\ loopSettings' = settings'
        /\ UNCHANGED PointerRest
        /\ UNCHANGED << clock, isPrecisionModeRef, lastPointerRef, pointerPosRef, tick >>
        /\ UNCHANGED << ClassifyVars, ActVars, LoopVars, IpcVars, viewport, ServiceVars >>

NextPointer ==
    \/ UpdatePointer
    \/ Resize
    \/ SetPrecisionSlowdown

SpecPointer == Init /\ [][NextPointer]_vars

-----------------------------------------------------------------------------
(* The aim / command loop given a landmark array with an entry missing     *)

FrameHandsBad == {<<[handedness |-> "left", landmarks |-> Truncated(PalmA, 20)]>>}

\* recognizeGestureWithHold throws out of predictWebcam: the statements after
\* it, the final requestAnimationFrame included, are not run.
PredictWebcamThrows ==
    \E dt \in Steps, hands \in FrameHandsBad :
        /\ rafPending > 0
        /\ activeHandIndex(hands) > 0
        /\ recognizeGesture(hands[activeHandIndex(hands)].landmarks) = TypeError
        /\ clock + dt <= MaxClock
        /\ clock' = clock + dt
        /\ faceDetected' = TRUE
        /\ rafPending' = rafPending - 1
        /\ tick' = [ kind |-> "throw", branch |-> "none", modeBefore |-> commandMode,
                     lastBefore |-> lastGestureRef, gesture |-> Null,
                     pointerUpdated |-> FALSE, pointerBefore |-> pointerPosRef,
                     frozenBefore |-> frozenPointerRef,
                     handedness |-> hands[activeHandIndex(hands)].handedness,
                     activeHand |-> settings.activeHand ]
        /\ UNCHANGED << currentGesture, gestureStartTime, confirmedGesture, commandMode,
                        displayState, currentGestureRef, frozenPointerRef, pointerPosRef,
                        lastPointerRef, isPrecisionModeRef, lastGestureRef,
                        pendingCommandRef, lastDisplayUpdateRef, loopCommandMode, hold,
                        trig, awaiting >>
        /\ UNCHANGED << SettingsVars, ClassifyVars, ActVars, IpcVars, viewport, ServiceVars >>

NextErr ==
    \/ PredictWebcamNoFace
    \/ PredictWebcamNoHands
    \/ PredictWebcamNoActiveHand
    \/ PredictWebcamHand
    \/ SetActiveHand
    \/ PredictWebcamThrows

SpecErr == Init /\ [][NextErr]_vars

-----------------------------------------------------------------------------
(* The gesture-action loop built with DRY_RUN = false                      *)

\* The keys of `commands` in the launch-app handler.
LaunchCommands == {"chrome", "code", "slack", "explorer", "discord", "terminal",
                   "notepad", "spotify"}

\* ipcMain.handle('take-screenshot'): what the invoke call resolves to.
takeScreenshot(robotThrows) == [thrown |-> FALSE, success |-> ~robotThrows]

\* ipcMain.handle('launch-app'); the app ids of GESTURE_ACTIONS are lower case
\* already.
launchApp(appName, execError) ==
    IF appName \notin LaunchCommands
    THEN [thrown |-> FALSE, success |-> FALSE]
    ELSE [thrown |-> FALSE, success |-> ~execError]

\* Mutant: the feedback after the invoke call always reports success.
afterInvoke_AlwaysSuccess(call, reply) ==
    IF call.invoke[1] = "take-screenshot"
    THEN [label |-> <<"SCREENSHOT CAPTURED">>, success |-> TRUE]
    ELSE [label |-> <<"LAUNCHING: ", GESTURE_ACTIONS[call.gesture].label>>,
          success |-> TRUE]

\* executeGestureAction after the await: the feedback it sets. The timer that
\* clears the feedback 1500 ms later is not modelled.
afterInvoke(call, reply) ==
    IF reply.thrown
    THEN [label |-> <<"ACTION FAILED">>, success |-> FALSE]
    ELSE IF call.invoke[1] = "take-screenshot"
    THEN [label |-> <<"SCREENSHOT CAPTURED">>, success |-> reply.success]
    ELSE [label |-> <<"LAUNCHING: ", GESTURE_ACTIONS[call.gesture].label>>,
          success |-> reply.success]

\* A pending invoke call settles: the main process handler answers, or the
\* call is rejected, and executeGestureAction resumes.
IpcReply ==
    \E i \in 1..Len(ipcCalls), osFails \in BOOLEAN, ipcThrows \in BOOLEAN :
        /\ ipcCalls[i].state = "pending"
        /\ \E reply \in {IF ipcThrows THEN [thrown |-> TRUE, success |-> FALSE]
                          ELSE IF ipcCalls[i].invoke[1] = "take-screenshot"
                          THEN takeScreenshot(osFails)
                          ELSE launchApp(ipcCalls[i].invoke[2], osFails)} :
               /\ actionFeedback' = afterInvoke(ipcCalls[i], reply)
               /\ ipcCalls' = [ipcCalls EXCEPT ![i].state =
                                   IF reply.thrown THEN "thrown"
                                   ELSE IF reply.success THEN "ok" ELSE "failed"]
        /\ tick' = [ kind |-> "ipc", lastBefore |-> lastGestureRef,
                     gesture |-> ipcCalls[i].gesture, attempt |-> FALSE,
                     dispatched |-> FALSE, lastActionBefore |-> lastActionTimeRef,
                     call |-> i ]
        /\ UNCHANGED << clock, faceDetected, currentGesture, gestureStartTime,
                        confirmedGesture, currentGestureRef, pointerPosRef,
                        lastPointerRef, isPrecisionModeRef, lastGestureRef, hold, trig,
                        lastActionTimeRef, dispatchLog, dryRun >>
        /\ UNCHANGED << AimVars, SettingsVars, ClassifyVars, LoopVars, viewport,
                        ServiceVars >>

InitLive ==
    /\ InitApp
    /\ dryRun = FALSE
    /\ handPose = << >>
    /\ classified = Null

NextLive ==
    \/ ActNoFace
    \/ ActNoHands
    \/ ActHand
    \/ IpcReply

SpecLive == InitLive /\ [][NextLive]_vars

-----------------------------------------------------------------------------
(* The gesture-action loop that awaits body segmentation                   *)

StepsSeg == {100, 300}

\* What detect() reports for a frame with a face: no hand, a hand, or a hand
\* whose landmark array has an entry missing.
SegHands == {<< >>} \cup FrameHandsBad
            \cup {<<[handedness |-> "left", landmarks |-> p]>> : p \in {PalmA, PeaceA}}

SegRest == << pointerPosRef, lastPointerRef, isPrecisionModeRef, hold, dryRun, viewport,
             ServiceVars >>

\* predictWebcam from the face test to its end, for the detect() results of
\* the frame; `base` is the number of scheduled callbacks before this part,
\* `awaited` whether the frame was suspended at the await before it.
\* A throw out of recognizeGestureWithHold skips requestAnimationFrame.
SegFrameRest(face, hands, now, base, awaited) ==
    IF ~face
    THEN /\ currentGestureRef' = "UNKNOWN"
         /\ rafPending' = base + 1
         /\ tick' = [ kind |-> "noface", lastBefore |-> lastGestureRef, gesture |-> Null,
                      attempt |-> FALSE, dispatched |-> FALSE,
                      lastActionBefore |-> lastActionTimeRef,
                      awaited |-> awaited ]
         /\ UNCHANGED << currentGesture, gestureStartTime, confirmedGesture,
                         lastGestureRef, trig, ipcCalls >>
         /\ UNCHANGED ActVars
    ELSE IF Len(hands) = 0
    THEN /\ rafPending' = base + 1
         /\ tick' = [ kind |-> "nohands", lastBefore |-> lastGestureRef, gesture |-> Null,
                      attempt |-> FALSE, dispatched |-> FALSE,
                      lastActionBefore |-> lastActionTimeRef,
                      awaited |-> awaited ]
         /\ UNCHANGED << currentGesture, gestureStartTime, confirmedGesture,
                         currentGestureRef, lastGestureRef, trig, ipcCalls >>
         /\ UNCHANGED ActVars
    ELSE IF recognizeGesture(hands[1].landmarks) = TypeError
    THEN /\ rafPending' = base
         /\ tick' = [ kind |-> "throw", lastBefore |-> lastGestureRef, gesture |-> Null,
                      attempt |-> FALSE, dispatched |-> FALSE,
                      lastActionBefore |-> lastActionTimeRef,
                      awaited |-> awaited ]
         /\ UNCHANGED << currentGesture, gestureStartTime, confirmedGesture,
                         currentGestureRef, lastGestureRef, trig, ipcCalls >>
         /\ UNCHANGED ActVars
    ELSE \E raw \in {recognizeGesture(hands[1].landmarks)} :
         \E rec \in {recognizeGestureWithHold(Recognizer, raw, now)} :
         \E gesture \in {rec.ret} :
         \E attempt \in {isNewGesture(gesture, lastGestureRef)} :
         \E res \in {executeGestureAction(gesture, DateNow(now), lastActionTimeRef)} :
             /\ currentGesture' = rec.current
             /\ gestureStartTime' = rec.start
             /\ confirmedGesture' = rec.confirmed
             /\ trig' = TrigAfter(trig, confirmedGesture, rec.confirmed, attempt)
             /\ ipcCalls' = IF attempt /\ res.invoke # << >>
                             THEN Append(ipcCalls,
                                         [invoke |-> res.invoke, gesture |-> gesture,
                                          at |-> DateNow(now), state |-> "pending"])
                             ELSE ipcCalls
             /\ currentGestureRef' = gesture
             /\ IF attempt
                THEN /\ lastActionTimeRef' = res.lastActionTime
                     /\ actionFeedback' = IF res.feedback # NoFeedback THEN res.feedback
                                          ELSE actionFeedback
                     /\ dispatchLog' =
                          IF ~res.dispatched /\ dispatchLog # << >>
                             /\ ~dispatchLog[Len(dispatchLog)].ok
                          THEN dispatchLog
                          ELSE Append(dispatchLog,
                                      [gesture |-> gesture, at |-> DateNow(now),
                                       ok |-> res.dispatched])
                ELSE UNCHANGED ActVars
             /\ lastGestureRef' = gesture
             /\ rafPending' = base + 1
             /\ tick' = [ kind |-> "hand", lastBefore |-> lastGestureRef,
                          gesture |-> gesture, attempt |-> attempt,
                          dispatched |-> attempt /\ res.dispatched,
                          lastActionBefore |-> lastActionTimeRef,
                      awaited |-> awaited ]

\* An early return of predictWebcam (recognizer not ready, processing paused,
\* video without size): the callback only schedules itself again.
SegTickSkip ==
    \E dt \in StepsSeg :
        /\ rafPending > 0
        /\ clock + dt <= MaxClockSeg
        /\ clock' = clock + dt
        /\ rafPending' = (rafPending - 1) + 1
        /\ tick' = [ kind |-> "skip", lastBefore |-> lastGestureRef, gesture |-> Null,
                     attempt |-> FALSE, dispatched |-> FALSE,
                     lastActionBefore |-> lastActionTimeRef ]
        /\ UNCHANGED << faceDetected, currentGesture, gestureStartTime, confirmedGesture,
                        currentGestureRef, lastGestureRef, trig, ipcCalls, awaiting >>
        /\ UNCHANGED << ActVars, AimVars, SettingsVars, ClassifyVars, SegRest >>

\* A scheduled callback runs: detect(), then either the await of processFrame
\* (body segmentation ready) or the rest of the frame at once.
SegTickBegin ==
    \E dt \in StepsSeg, face \in BOOLEAN, hands \in SegHands, segReady \in BOOLEAN :
        /\ rafPending > 0
        /\ face \/ hands = << >>
        /\ clock + dt <= MaxClockSeg
        /\ clock' = clock + dt
        /\ faceDetected' = face
        /\ IF segReady
           THEN /\ awaiting' = Append(awaiting, [face |-> face, hands |-> hands])
                /\ rafPending' = rafPending - 1
                /\ tick' = [ kind |-> "await", lastBefore |-> lastGestureRef,
                             gesture |-> Null, attempt |-> FALSE, dispatched |-> FALSE,
                             lastActionBefore |-> lastActionTimeRef ]
                /\ UNCHANGED << currentGesture, gestureStartTime, confirmedGesture,
                                currentGestureRef, lastGestureRef, trig, ipcCalls >>
                /\ UNCHANGED ActVars
           ELSE /\ SegFrameRest(face, hands, clock + dt, rafPending - 1, FALSE)
                /\ UNCHANGED awaiting
        /\ UNCHANGED << AimVars, SettingsVars, ClassifyVars, SegRest >>

\* processFrame resolves and the suspended predictWebcam runs to its end.
SegTickResume ==
    \E dt \in StepsSeg :
        /\ awaiting # << >>
        /\ clock + dt <= MaxClockSeg
        /\ clock' = clock + dt
        /\ awaiting' = Tail(awaiting)
        /\ SegFrameRest(Head(awaiting).face, Head(awaiting).hands, clock + dt, rafPending,
                        TRUE)
        /\ UNCHANGED << faceDetected, AimVars, SettingsVars, ClassifyVars, SegRest >>

NextSeg ==
    \/ SegTickSkip
    \/ SegTickBegin
    \/ SegTickResume

SpecSeg == Init /\ [][NextSeg]_vars

-----------------------------------------------------------------------------
(* Main process: NetworkService on every machine of the multicast group    *)

RendererVars == << clock, faceDetected, currentGesture, gestureStartTime, confirmedGesture,
                   commandMode, displayState, actionFeedback, currentGestureRef,
                   frozenPointerRef, pointerPosRef, lastPointerRef, isPrecisionModeRef,
                   lastGestureRef, pendingCommandRef, lastDisplayUpdateRef,
                   lastActionTimeRef, loopCommandMode, tick, hold, dispatchLog,
                   settings, loopSettings, handPose, classified, trig,
                   viewport, dryRun, rafPending, awaiting, ipcCalls >>

\* os.hostname() of the machines that joined the group.
Machines == {"Ceres", "DESKTOP-6DSRLIR", "laptop"}

\* NetworkService.broadcast: one datagram to every member of the group, the
\* sender included; `sent` counts the broadcasts. The timestamp field is not
\* read by any handler and is left out.
broadcast(net, self, action) ==
    [ inflight |-> net.inflight (+)
                   SetToBag({[to |-> m, action |-> action, from |-> self] : m \in Machines}),
      sent     |-> net.sent + 1 ]

\* NetworkService.executeCommand: the key it taps.
executeCommand(command) ==
    IF command.action = "SWITCH_TAB" THEN <<"control+tab">>
    ELSE IF command.action = "MINIMIZE" THEN <<"command+down">>
    ELSE << >>

\* Mutant: the message handler without the test for own messages.
onMessage_NoOwnFilter(self, data) ==
    [ forward |-> TRUE,
      reply   |-> IF data.action = "PING" THEN <<"PONG">> ELSE << >>,
      keys    |-> executeCommand(data) ]

\* Mutant: the message handler answers a PONG as well.
onMessage_AnswersPong(self, data) ==
    IF data.from = self
    THEN [forward |-> FALSE, reply |-> << >>, keys |-> << >>]
    ELSE [ forward |-> TRUE,
           reply   |-> IF data.action \in {"PING", "PONG"} THEN <<"PONG">> ELSE << >>,
           keys    |-> executeCommand(data) ]

\* The socket's 'message' handler on machine `self`: whether the message is
\* forwarded to the renderer, what is broadcast in answer, which key is tapped.
onMessage(self, data) ==
    IF data.from = self
    THEN [forward |-> FALSE, reply |-> << >>, keys |-> << >>]
    ELSE [ forward |-> TRUE,
           reply   |-> IF data.action = "PING" THEN <<"PONG">> ELSE << >>,
           keys    |-> executeCommand(data) ]

\* ipcMain.handle('network-ping') on a machine.
NetworkPing ==
    \E m \in Machines :
        /\ netLog.user < MaxUserBroadcasts
        /\ network' = broadcast(network, m, "PING")
        /\ netLog' = [kind |-> "ping", user |-> netLog.user + 1,
                      pings |-> netLog.pings + 1]
        /\ UNCHANGED << RendererVars, bodySeg, segLog >>

\* ipcMain.handle('network-send') with a custom message.
NetworkSend ==
    \E m \in Machines, message \in {"HELLO"} :
        /\ netLog.user < MaxUserBroadcasts
        /\ network' = broadcast(network, m, message)
        /\ netLog' = [kind |-> "send", user |-> netLog.user + 1,
                      pings |-> netLog.pings]
        /\ UNCHANGED << RendererVars, bodySeg, segLog >>

\* ipcMain.on('gesture-detected'): CLOSED_FIST and OPEN_PALM tap a key and
\* broadcast; a throw of robot.keyTap skips the broadcast.
GestureDetected ==
    \E m \in Machines, gesture \in {"CLOSED_FIST", "OPEN_PALM"}, robotThrows \in BOOLEAN :
        /\ netLog.user < MaxUserBroadcasts
        /\ network' = IF robotThrows THEN network
                      ELSE broadcast(network, m,
                                     IF gesture = "CLOSED_FIST" THEN "MINIMIZE"
                                     ELSE "SWITCH_TAB")
        /\ netLog' = [kind |-> "gesture", user |-> netLog.user + 1,
                      pings |-> netLog.pings]
        /\ UNCHANGED << RendererVars, bodySeg, segLog >>

\* A datagram reaches a member of the group and its 'message' handler runs.
NetReceive ==
    \E d \in BagToSet(network.inflight) :
    \E r \in {onMessage(d.to, d)} :
        /\ Len(r.reply) = 0 \/ network.sent < MaxSent
        /\ network' = IF Len(r.reply) = 0
                      THEN [network EXCEPT !.inflight = @ (-) SetToBag({d})]
                      ELSE broadcast([network EXCEPT !.inflight = @ (-) SetToBag({d})],
                                     d.to, r.reply[1])
        /\ netLog' = [kind |-> "recv", data |-> d, forward |-> r.forward,
                      reply |-> r.reply, keys |-> r.keys, user |-> netLog.user,
                      pings |-> netLog.pings]
        /\ UNCHANGED << RendererVars, bodySeg, segLog >>

NextNet ==
    \/ NetworkPing
    \/ NetworkSend
    \/ GestureDetected
    \/ NetReceive

SpecNet == Init /\ [][NextNet]_vars

-----------------------------------------------------------------------------
(* BodySegmentationService: setMode, loadModel, processFrame               *)

\* bodyPix.load called by loadModel: the arguments are read from _config when
\* the call is made; the model is assigned to `net` when the promise resolves.
loadModel(svc, id) ==
    [svc EXCEPT !.loads = @ \cup {[id |-> id,
                                   args |-> LoadArgs(POWER_MODE_CONFIGS[svc.mode])]}]

\* setMode up to its first await (or its return), as call number `id`.
setMode(svc, mode, id) ==
    LET newConfig == POWER_MODE_CONFIGS[mode]
        oldConfig == POWER_MODE_CONFIGS[svc.mode]
        switched  == [svc EXCEPT !.mode = mode, !.frameCount = 0]
    IN  IF mode = svc.mode THEN svc
        ELSE IF ~newConfig.enabled THEN switched
        ELSE IF ~oldConfig.enabled THEN loadModel(switched, id)
        ELSE IF LoadArgs(oldConfig) # LoadArgs(newConfig)
             THEN loadModel(
                      IF switched.net # 0
                      THEN [switched EXCEPT !.models[switched.net].disposed = TRUE,
                                            !.net = 0]
                      ELSE switched, id)
        ELSE switched

\* The effect of App on [powerMode] calls setMode without waiting for the
\* call of the previous change.
SetMode ==
    \E i \in 1..Len(POWER_MODES) :
        /\ bodySeg.calls < MaxSetModeCalls
        /\ bodySeg' = [setMode(bodySeg, POWER_MODES[i], bodySeg.calls + 1)
                          EXCEPT !.calls = bodySeg.calls + 1]
        /\ segLog' = [kind |-> "setMode", mode |-> POWER_MODES[i]]
        /\ UNCHANGED << RendererVars, network, netLog >>

\* A bodyPix.load promise resolves and loadModel assigns `net`; the promises
\* of overlapping calls resolve in any order.
LoadResolves ==
    \E l \in bodySeg.loads :
        /\ bodySeg' = [bodySeg EXCEPT
                          !.models = Append(@, [args |-> l.args, disposed |-> FALSE]),
                          !.net = Len(bodySeg.models) + 1,
                          !.loads = @ \ {l}]
        /\ segLog' = [kind |-> "load", id |-> l.id]
        /\ UNCHANGED << RendererVars, network, netLog >>

\* processFrame up to the call of segmentPerson, for a video with a size;
\* segmentOn is the model segmentPerson is called on, 0 when it is not called.
ProcessFrame ==
    /\ bodySeg.frameCount < MaxFrames
    /\ \E config \in {POWER_MODE_CONFIGS[bodySeg.mode]} :
         IF ~config.enabled \/ bodySeg.net = 0
         THEN /\ segLog' = [kind |-> "frame", segmentOn |-> 0, disposed |-> FALSE,
                            count |-> bodySeg.frameCount]
              /\ UNCHANGED bodySeg
         ELSE /\ bodySeg' = [bodySeg EXCEPT !.frameCount = @ + 1]
              /\ segLog' =
                    IF config.frameSkip > 0
                       /\ (bodySeg.frameCount + 1) % (config.frameSkip + 1) # 0
                    THEN [kind |-> "frame", segmentOn |-> 0, disposed |-> FALSE,
                          count |-> bodySeg.frameCount + 1]
                    ELSE [kind |-> "frame", segmentOn |-> bodySeg.net,
                          disposed |-> bodySeg.models[bodySeg.net].disposed,
                          count |-> bodySeg.frameCount + 1]
    /\ UNCHANGED << RendererVars, network, netLog >>

NextBodySeg ==
    \/ SetMode
    \/ LoadResolves
    \/ ProcessFrame

SpecBodySeg == Init /\ [][NextBodySeg]_vars

-----------------------------------------------------------------------------
(* Mode transitions (aim / command loop)                                   *)

RisingEdge(g) == tick.kind = "hand" /\ tick.gesture = g /\ tick.lastBefore # g

\* C1: the mode starts as AIMING; a frame processed while AIMING on which the
\* confirmed gesture rises to OPEN_PALM sets the mode to COMMAND; and every hand
\* frame that starts with the mode COMMAND is processed by the command branch.
C1_EnterCommandMode ==
    /\ (tick.kind = "init" => ~commandMode)
    /\ (RisingEdge("OPEN_PALM") /\ ~tick.modeBefore => commandMode)
    /\ (tick.kind = "hand" /\ tick.modeBefore => tick.branch = "COMMAND")

\* C2: a frame that starts with the mode COMMAND and on which the confirmed
\* gesture rises to POINTING_UP sets the mode to AIMING, clears the frozen
\* pointer and projects the live pointer from the frame's hand pose.
C2_ExitCommandMode ==
    RisingEdge("POINTING_UP") /\ tick.modeBefore =>
        /\ ~commandMode
        /\ frozenPointerRef = NoPointer
        /\ tick.pointerUpdated

-----------------------------------------------------------------------------
(* Hold-to-confirm                                                         *)

\* C3: the confirmed label changes to X only on a call whose raw label is X and
\* whose run of calls with raw label X began at least HOLD_THRESHOLD_MS earlier.
C3_ConfirmOnlyAfterHold ==
    hold.calls > 0 /\ hold.before # hold.after =>
        /\ hold.after = hold.label
        /\ ~hold.newRun
        /\ hold.at - hold.start >= HOLD_THRESHOLD_MS

C3_Witness ==
    /\ hold.calls > 0
    /\ hold.before = "OPEN_PALM"
    /\ hold.after = "PEACE_SIGN"
    /\ hold.at - hold.start >= HOLD_THRESHOLD_MS

\* C4: within one run of calls with the same raw label the confirmed label
\* changes at most once, and a change happens on a call at or after the threshold
\* with no earlier call of the run at or after the threshold left unconfirmed.
C4_OneChangePerRun ==
    hold.calls > 0 =>
        /\ hold.changes <= 1
        /\ (hold.changes = 1 => confirmedGesture = hold.label)
        /\ (~hold.newRun /\ hold.at - hold.start >= HOLD_THRESHOLD_MS =>
                hold.after = hold.label)

\* PEACE_SIGN confirmed once and sampled again in the same run.
C4_Witness ==
    /\ hold.label = "PEACE_SIGN"
    /\ hold.changes = 1
    /\ ~hold.newRun
    /\ hold.before = "PEACE_SIGN"
    /\ hold.after = "PEACE_SIGN"

\* C5: a call whose raw label differs from the stored raw label stores the new
\* label, sets the run start to now, and returns the confirmed label unchanged.
C5_NewLabelNeverConfirms ==
    hold.calls > 0 /\ hold.label # hold.stored =>
        /\ currentGesture = hold.label
        /\ gestureStartTime = hold.at
        /\ hold.after = hold.before
        /\ confirmedGesture = hold.before
        /\ (tick.kind = "hand" => tick.gesture = hold.before)

\* A new raw label arrives while another label is confirmed.
C5_Witness ==
    /\ tick.kind = "hand"
    /\ hold.label = "POINTING_UP"
    /\ hold.stored = "OPEN_PALM"
    /\ hold.before = "OPEN_PALM"
    /\ tick.gesture = "OPEN_PALM"

-----------------------------------------------------------------------------
(* Dispatch cooldown (gesture-action loop)                                 *)

Accepted == SelectSeq(dispatchLog, LAMBDA e : e.ok)

\* Date.now() of the last accepted dispatch before the last frame tick, 0 if none.
LastAcceptBefore ==
    LET n == Len(Accepted) IN
    IF tick.kind # "init" /\ tick.dispatched
    THEN IF n >= 2 THEN Accepted[n - 1].at ELSE 0
    ELSE IF n >= 1 THEN Accepted[n].at ELSE 0

Mapped(g) == g \in DOMAIN GESTURE_ACTIONS

\* C6: two accepted dispatches are at least ACTION_COOLDOWN_MS apart, and a call
\* made less than ACTION_COOLDOWN_MS after the last accepted one is not accepted.
C6_CooldownBetweenDispatches ==
    /\ \A i \in 1..Len(Accepted) : \A j \in 1..Len(Accepted) :
            i < j => Accepted[j].at - Accepted[i].at >= ACTION_COOLDOWN_MS
    /\ (tick.kind # "init" /\ tick.attempt
            /\ DateNow(clock) - LastAcceptBefore < ACTION_COOLDOWN_MS
        => ~tick.dispatched)

C6_Witness ==
    /\ Len(Accepted) = 2
    /\ Len(dispatchLog) = 3
    /\ ~dispatchLog[2].ok
    /\ Mapped(dispatchLog[2].gesture)

\* C7: a call for a mapped gesture made exactly ACTION_COOLDOWN_MS after the
\* last accepted dispatch is accepted and records now as the last dispatch time.
C7_AcceptAtExactCooldown ==
    tick.kind # "init" /\ tick.attempt /\ Mapped(tick.gesture)
        /\ DateNow(clock) - tick.lastActionBefore = ACTION_COOLDOWN_MS
    =>  /\ tick.dispatched
        /\ lastActionTimeRef = DateNow(clock)
        /\ Accepted[Len(Accepted)] = [gesture |-> tick.gesture, at |-> DateNow(clock),
                                      ok |-> TRUE]

C7_Witness ==
    /\ tick.kind = "hand"
    /\ tick.attempt
    /\ Len(Accepted) = 2
    /\ Accepted[2].at - Accepted[1].at = ACTION_COOLDOWN_MS
    /\ tick.lastActionBefore = Accepted[1].at

\* C8: a rejected call leaves the last dispatch time unchanged, so the window
\* runs from the last accepted dispatch: a call for a mapped gesture is accepted
\* exactly when at least ACTION_COOLDOWN_MS have passed since that dispatch.
C8_WindowFromLastAccepted ==
    tick.kind # "init" /\ tick.attempt =>
        /\ (~tick.dispatched => lastActionTimeRef = tick.lastActionBefore)
        /\ (Mapped(tick.gesture) =>
                (tick.dispatched <=>
                    DateNow(clock) - LastAcceptBefore >= ACTION_COOLDOWN_MS))

\* Accepted at t, rejected at t + 500, accepted at t + 2100.
C8_Witness ==
    /\ Len(dispatchLog) = 3
    /\ dispatchLog[1].ok /\ ~dispatchLog[2].ok /\ dispatchLog[3].ok
    /\ Mapped(dispatchLog[2].gesture)
    /\ dispatchLog[2].at = dispatchLog[1].at + 500
    /\ dispatchLog[3].at = dispatchLog[1].at + 2100

-----------------------------------------------------------------------------
(* Mode gating (aim / command loop)                                        *)

\* C9: a frame processed while the mode is AIMING dispatches nothing: it makes
\* no executeGestureAction call and leaves the last dispatch time and the action
\* feedback alone.
C9_NoDispatchWhileAiming ==
    [][~commandMode => UNCHANGED << dispatchLog, lastActionTimeRef, actionFeedback >>]_vars

\* A rising edge to a gesture of both action tables on a frame processed while AIMING.
C9_Witness ==
    /\ RisingEdge("PEACE_SIGN")
    /\ ~tick.modeBefore
    /\ tick.branch = "AIM"
    /\ dispatchLog = << >>

\* C10: a frame that starts with the mode COMMAND does not call updatePointer
\* and leaves the live pointer position as it was.
C10_PointerFrozenInCommand ==
    tick.kind # "init" /\ tick.modeBefore =>
        /\ ~tick.pointerUpdated
        /\ pointerPosRef = tick.pointerBefore

-----------------------------------------------------------------------------
(* Frozen pointer, edges and command dispatch (aim / command loop)         *)

\* C11: the frame that enters COMMAND sets the frozen pointer to the pointer
\* position it started with; a frame that starts and ends in COMMAND keeps the
\* frozen pointer; and the pointer a frame hands to the display while the mode is
\* COMMAND is the frozen pointer.
C11_FrozenSnapshotDisplayed ==
    /\ (RisingEdge("OPEN_PALM") /\ ~tick.modeBefore =>
            frozenPointerRef = tick.pointerBefore)
    /\ (tick.kind # "init" /\ tick.modeBefore /\ commandMode =>
            frozenPointerRef = tick.frozenBefore)
    /\ (tick.kind # "init" /\ commandMode /\ lastDisplayUpdateRef = clock =>
            displayState.pointerPos = frozenPointerRef)

CommandGestures == DOMAIN COMMAND_MODE_ACTIONS \ {"POINTING_UP"}

\* C13: a frame that starts in COMMAND and on which the confirmed gesture rises
\* to a command-table gesture other than POINTING_UP calls the dispatcher for
\* that gesture.
C13_CommandDispatch ==
    tick.kind = "hand" /\ tick.modeBefore /\ tick.gesture \in CommandGestures
        /\ tick.gesture # tick.lastBefore
    =>  /\ dispatchLog # << >>
        /\ dispatchLog[Len(dispatchLog)].gesture = tick.gesture
        /\ dispatchLog[Len(dispatchLog)].at = DateNow(clock)

\* C14: a frame changes the mode exactly when the confirmed gesture rises to
\* OPEN_PALM while AIMING or rises to POINTING_UP while COMMAND.
C14_ModeChangesOnTwoEdges ==
    tick.kind # "init" =>
        (commandMode # tick.modeBefore <=>
            \/ RisingEdge("OPEN_PALM") /\ ~tick.modeBefore
            \/ RisingEdge("POINTING_UP") /\ tick.modeBefore)

-----------------------------------------------------------------------------
(* Classifier                                                              *)

WellFormed(lm) == \A i \in LandmarkIdx : i \in DOMAIN lm

\* The eight rules, first match wins.
EightRules(f) ==
    IF f.index /\ ~f.middle /\ ~f.ring /\ ~f.pinky THEN "POINTING_UP"
    ELSE IF f.index /\ f.middle /\ ~f.ring /\ ~f.pinky THEN "PEACE_SIGN"
    ELSE IF f.thumb /\ ~f.index /\ ~f.middle /\ ~f.ring /\ ~f.pinky THEN "THUMBS_UP"
    ELSE IF f.index /\ ~f.middle /\ ~f.ring /\ f.pinky THEN "ROCK_ON"
    ELSE IF f.index /\ f.middle /\ f.ring /\ ~f.pinky THEN "THREE_FINGERS"
    ELSE IF ~f.index /\ ~f.middle /\ ~f.ring /\ ~f.pinky /\ ~f.thumb THEN "CLOSED_FIST"
    ELSE IF f.index /\ f.middle /\ f.ring /\ f.pinky THEN "OPEN_PALM"
    ELSE "UNKNOWN"

\* C15: for every combination of open and closed thumb and fingers
\* recognizeGesture returns the label of the eight rules applied in order.
C15_EightRules ==
    classified # Null /\ WellFormed(handPose) =>
        classified = EightRules(getFingerStates(handPose))

GestureLabels == {"UNKNOWN", "CLOSED_FIST", "OPEN_PALM", "POINTING_UP", "PEACE_SIGN",
                  "THREE_FINGERS", "FOUR_FINGERS", "THUMBS_UP", "ROCK_ON"}

\* C16: every label recognizeGesture returns is one of the nine gesture labels.
C16_ClosedEnumeration ==
    classified # Null /\ WellFormed(handPose) => classified \in GestureLabels

\* C20: given an array with a landmark missing at an index it reads,
\* recognizeGesture returns UNKNOWN and throws nothing.
C20_MalformedReturnsUnknown ==
    classified # Null /\ ~WellFormed(handPose) => classified = "UNKNOWN"

-----------------------------------------------------------------------------
(* Face and hand gating (aim / command loop)                               *)

\* C17: a frame without a face calls neither the classifier nor the debouncer,
\* takes no mode transition and dispatches nothing.
C17_NoFaceNoProcessing ==
    [][clock' # clock /\ ~faceDetected' =>
        UNCHANGED << currentGesture, gestureStartTime, confirmedGesture, hold,
                     commandMode, frozenPointerRef, lastGestureRef, trig,
                     dispatchLog, lastActionTimeRef, actionFeedback >>]_vars

\* The face is lost in COMMAND while a raw label is being held.
C17_Witness ==
    /\ tick.kind = "noface"
    /\ tick.modeBefore
    /\ currentGesture = "POINTING_UP"
    /\ confirmedGesture = "OPEN_PALM"
    /\ hold.at < clock

\* C18: the pose a frame classifies has the handedness of the active hand
\* configured when the frame runs, and a frame that finds no pose of the
\* handedness it looks for ends with gesture UNKNOWN and no pointer.
C18_ActiveHandOnly ==
    /\ (tick.kind = "hand" =>
            tick.handedness = (IF tick.activeHand = "right" THEN "left" ELSE "right"))
    /\ (tick.kind = "nohand" =>
            currentGestureRef = "UNKNOWN" /\ pointerPosRef = NoPointer)

\* C19: a frame with no face or without a pose of the active hand ends with
\* gesture UNKNOWN and no pointer, in the refs and in what it hands to the
\* display, and dispatches nothing.
C19_NoHandSteadyState ==
    tick.kind \in {"noface", "nohands", "nohand"} =>
        /\ currentGestureRef = "UNKNOWN"
        /\ pointerPosRef = NoPointer
        /\ (lastDisplayUpdateRef = clock =>
                /\ displayState.currentGesture = "UNKNOWN"
                /\ displayState.pointerPos = NoPointer)
        /\ dispatchLog = << >>

-----------------------------------------------------------------------------
(* Errors, pointer bounds, dry run, threshold, scheduling                  *)

\* C21: after every frame tick, one whose classification fails included, the
\* next tick is scheduled, and a tick whose classification failed ends with
\* gesture UNKNOWN, no pointer and nothing dispatched.
C21_LoopSurvivesFrameError ==
    /\ (tick.kind # "init" => rafPending > 0)
    /\ (tick.kind = "throw" =>
            /\ currentGestureRef = "UNKNOWN"
            /\ pointerPosRef = NoPointer
            /\ dispatchLog = << >>)

\* C22: an invoke call that is rejected or answered with success = false sets
\* a feedback with success = false; every invoke call belongs to one accepted
\* dispatch of its own, so none is repeated; the next frame stays scheduled.
C22_FailedCallReported ==
    /\ (tick.kind = "ipc" /\ ipcCalls[tick.call].state # "ok" =>
            actionFeedback # NoFeedback /\ ~actionFeedback.success)
    /\ Len(ipcCalls) = Len(Accepted)
    /\ \A i \in 1..Len(ipcCalls) :
            /\ ipcCalls[i].at = Accepted[i].at
            /\ ipcCalls[i].gesture = Accepted[i].gesture
    /\ rafPending > 0

\* A launch fails and is reported after a further frame has run with the
\* gesture still held; no second call was made.
C22_Witness ==
    /\ tick.kind = "ipc"
    /\ Len(ipcCalls) = 1
    /\ ipcCalls[1].state = "failed"
    /\ ipcCalls[1].at < DateNow(clock)
    /\ lastGestureRef = ipcCalls[1].gesture
    /\ ~actionFeedback.success
    /\ actionFeedback.label[1] = "LAUNCHING: "
    /\ rafPending > 0

\* C23: after an updatePointer call the pointer lies within the viewport that
\* was current at the call.
C23_PointerWithinViewport ==
    tick.kind = "pointer" =>
        /\ 0 <= pointerPosRef.x /\ pointerPosRef.x <= tick.viewport.w
        /\ 0 <= pointerPosRef.y /\ pointerPosRef.y <= tick.viewport.h

Between(a, v, b) == (a <= v /\ v <= b) \/ (b <= v /\ v <= a)

\* C24: a call with precision active and a previous pointer leaves the pointer,
\* on each axis, between the previous pointer and the target: no farther from
\* the target than before and not on its other side.
C24_PrecisionNeverOvershoots ==
    tick.kind = "pointer" /\ tick.precision /\ tick.before # NoPointer =>
        /\ Between(tick.before.x, pointerPosRef.x, tick.target.x)
        /\ Between(tick.before.y, pointerPosRef.y, tick.target.y)

\* A precision step that moved the pointer part of the way on both axes.
C24_Witness ==
    /\ tick.kind = "pointer"
    /\ tick.precision
    /\ tick.before # NoPointer
    /\ pointerPosRef.x # tick.before.x /\ pointerPosRef.x # tick.target.x
    /\ pointerPosRef.y # tick.before.y /\ pointerPosRef.y # tick.target.y

\* C25: a hand with the four fingers open and the thumb closed is classified
\* FOUR_FINGERS.
C25_FourFingersRecognised ==
    classified # Null /\ WellFormed(handPose)
        /\ fingerCountOf(getFingerStates(handPose)) = 4
        /\ ~getFingerStates(handPose).thumb
    => classified = "FOUR_FINGERS"

\* C26: with DRY_RUN set no invoke call is made, and an accepted dispatch sets
\* a WOULD feedback and records the dispatch time.
C26_DryRunNoSideEffect ==
    dryRun =>
        /\ ipcCalls = << >>
        /\ (tick.kind # "init" /\ tick.dispatched =>
                /\ actionFeedback.success
                /\ actionFeedback.label[1] \in {"WOULD: TAKE SCREENSHOT", "WOULD LAUNCH: "}
                /\ lastActionTimeRef = DateNow(clock))

\* PEACE_SIGN accepted in a dry run.
C26_Witness ==
    /\ dryRun
    /\ tick.kind = "hand"
    /\ tick.dispatched
    /\ tick.gesture = "PEACE_SIGN"
    /\ actionFeedback.label = <<"WOULD: TAKE SCREENSHOT">>
    /\ lastActionTimeRef = DateNow(clock)

\* C27: a call that continues a run returns the run's label when the run began
\* HOLD_THRESHOLD_MS or more before it, and the label confirmed before when it
\* began less than that before it.
C27_ConfirmAtThreshold ==
    hold.calls > 0 /\ ~hold.newRun =>
        /\ (hold.at - hold.start >= HOLD_THRESHOLD_MS =>
                hold.after = hold.label
                /\ (tick.kind = "hand" => tick.gesture = hold.label))
        /\ (hold.at - hold.start < HOLD_THRESHOLD_MS =>
                hold.after = hold.before
                /\ (tick.kind = "hand" => tick.gesture = hold.before))

\* Confirmed on the call exactly HOLD_THRESHOLD_MS after the run began.
C27_Witness ==
    /\ hold.calls > 0
    /\ ~hold.newRun
    /\ hold.at - hold.start = HOLD_THRESHOLD_MS
    /\ hold.before # hold.after
    /\ hold.after = hold.label

\* C28: the confirmed label changes only on a call that ends HOLD_THRESHOLD_MS
\* or more of calls with that raw label uninterrupted by a frame without face
\* or active hand.
C28_GapRestartsHold ==
    hold.calls > 0 /\ hold.before # hold.after =>
        hold.at - hold.contStart >= HOLD_THRESHOLD_MS

\* C29: exactly one frame tick is scheduled or suspended at its await.
C29_OneTickAtATime == rafPending + Len(awaiting) = 1

\* C30: any two invoke calls are at least ACTION_COOLDOWN_MS apart, and an
\* attempt made while an invoke call younger than ACTION_COOLDOWN_MS is still
\* pending is not forwarded.
C30_NoDoubleForward ==
    /\ \A i \in 1..Len(ipcCalls) : \A j \in 1..Len(ipcCalls) :
            i < j => ipcCalls[j].at - ipcCalls[i].at >= ACTION_COOLDOWN_MS
    /\ (tick.kind = "hand" /\ tick.attempt /\ Mapped(tick.gesture)
            /\ (\E i \in 1..Len(ipcCalls) :
                    /\ ipcCalls[i].state = "pending"
                    /\ ipcCalls[i].at < DateNow(clock)
                    /\ DateNow(clock) - ipcCalls[i].at < ACTION_COOLDOWN_MS)
        => ~tick.dispatched)

\* A second mapped gesture edge while the first call is pending: not forwarded.
C30_Witness ==
    /\ tick.kind = "hand"
    /\ tick.attempt
    /\ Mapped(tick.gesture)
    /\ ~tick.dispatched
    /\ Len(ipcCalls) = 1
    /\ ipcCalls[1].state = "pending"
    /\ ipcCalls[1].gesture # tick.gesture

-----------------------------------------------------------------------------
(* Unmapped and dropped gestures, frozen pointer, gated frames             *)

\* C31: an executeGestureAction call for a gesture without an entry in
\* GESTURE_ACTIONS dispatches nothing, invokes nothing and leaves
\* lastActionTimeRef as it was.
C31_UnmappedLeavesCooldown ==
    tick.kind = "hand" /\ tick.attempt /\ ~Mapped(tick.gesture) =>
        /\ ~tick.dispatched
        /\ lastActionTimeRef = tick.lastActionBefore
        /\ ipcCalls = << >>
        /\ (dispatchLog # << >> => ~dispatchLog[Len(dispatchLog)].ok)

\* OPEN_PALM rises after the cooldown of an earlier dispatch has run out.
C31_Witness ==
    /\ tick.kind = "hand"
    /\ tick.attempt
    /\ tick.gesture = "OPEN_PALM"
    /\ tick.lastActionBefore > 0
    /\ DateNow(clock) - tick.lastActionBefore >= ACTION_COOLDOWN_MS
    /\ lastActionTimeRef = tick.lastActionBefore

\* C32: a frame on which the confirmed gesture is the one of the frame before
\* makes no executeGestureAction call, dispatches nothing and leaves
\* lastActionTimeRef alone, whether or not the cooldown that rejected the
\* gesture's rising edge has run out.
C32_DroppedNotQueued ==
    tick.kind = "hand" /\ tick.gesture = tick.lastBefore =>
        /\ ~tick.attempt
        /\ ~tick.dispatched
        /\ lastActionTimeRef = tick.lastActionBefore

\* The rising edge of a mapped gesture was rejected by the cooldown; the
\* gesture is still held on a frame after the cooldown has run out.
C32_Witness ==
    /\ tick.kind = "hand"
    /\ Mapped(tick.gesture)
    /\ tick.gesture = tick.lastBefore
    /\ dispatchLog # << >>
    /\ ~dispatchLog[Len(dispatchLog)].ok
    /\ dispatchLog[Len(dispatchLog)].gesture = tick.gesture
    /\ lastActionTimeRef > 0
    /\ DateNow(clock) - lastActionTimeRef >= ACTION_COOLDOWN_MS

\* C33: the frozen pointer is set exactly when the mode is COMMAND.
C33_FrozenIffCommand ==
    (frozenPointerRef # NoPointer) <=> commandMode

\* C34: a frame without face or without a pose of the active hand leaves the
\* mode and the frozen pointer as they were, and the mode leaves COMMAND only
\* on a frame on which the confirmed gesture rises to POINTING_UP.
C34_GatedFrameKeepsMode ==
    /\ (tick.kind \in GatedKinds =>
            /\ commandMode = tick.modeBefore
            /\ frozenPointerRef = tick.frozenBefore)
    /\ (tick.kind # "init" /\ tick.modeBefore /\ ~commandMode =>
            RisingEdge("POINTING_UP"))

\* The face is lost while in COMMAND with a pointer frozen.
C34_Witness ==
    /\ tick.kind = "noface"
    /\ tick.modeBefore
    /\ commandMode
    /\ tick.frozenBefore # NoPointer
    /\ frozenPointerRef = tick.frozenBefore

-----------------------------------------------------------------------------
(* Network messages                                                        *)

\* C35: a machine that receives a message it broadcast itself does not forward
\* it to its renderer, broadcasts no answer and taps no key.
C35_OwnMessagesIgnored ==
    netLog.kind = "recv" /\ netLog.data.from = netLog.data.to =>
        /\ ~netLog.forward
        /\ netLog.reply = << >>
        /\ netLog.keys = << >>

\* A machine receives its own MINIMIZE broadcast.
C35_Witness ==
    /\ netLog.kind = "recv"
    /\ netLog.data.from = netLog.data.to
    /\ netLog.data.action = "MINIMIZE"
    /\ ~netLog.forward
    /\ netLog.keys = << >>

\* PING datagrams in flight to a machine other than their sender.
PingsToAnswer ==
    BagCardinality([d \in {e \in BagToSet(network.inflight) :
                              e.action = "PING" /\ e.from # e.to}
                       |-> network.inflight[d]])

\* C36: a received message causes one PONG broadcast when it is another
\* machine's PING and no broadcast otherwise, and the broadcasts made plus the
\* answers still due never exceed one per broadcast asked for plus one for
\* each other machine per PING asked for.
C36_NoMessageLoop ==
    /\ (netLog.kind = "recv" =>
            netLog.reply = IF netLog.data.action = "PING"
                              /\ netLog.data.from # netLog.data.to
                           THEN <<"PONG">> ELSE << >>)
    /\ network.sent + PingsToAnswer
            <= netLog.user + netLog.pings * (Cardinality(Machines) - 1)

\* One PING was broadcast, the two other machines answered, the last PONG has
\* been received by another machine and nothing is in flight.
C36_Witness ==
    /\ netLog.kind = "recv"
    /\ netLog.data.action = "PONG"
    /\ netLog.data.from # netLog.data.to
    /\ netLog.reply = << >>
    /\ netLog.user = 1
    /\ network.sent = Cardinality(Machines)
    /\ network.inflight = EmptyBag

-----------------------------------------------------------------------------
(* Power modes of the body segmentation                                    *)

\* C37: once no bodyPix.load started by a setMode call is pending, the model
\* in `net` was built from the configuration of the current mode (when that
\* mode segments at all), and processFrame never calls segmentPerson on a
\* model that setMode has disposed.
C37_ModelMatchesMode ==
    /\ (bodySeg.loads = {} /\ POWER_MODE_CONFIGS[bodySeg.mode].enabled
          => /\ bodySeg.net # 0
             /\ bodySeg.models[bodySeg.net].args
                    = LoadArgs(POWER_MODE_CONFIGS[bodySeg.mode]))
    /\ (segLog.kind = "frame" /\ segLog.segmentOn # 0 => ~segLog.disposed)

\* The part of C37 about processFrame alone.
C37_NeverSegmentsDisposed ==
    /\ (segLog.kind = "frame" /\ segLog.segmentOn # 0 => ~segLog.disposed)
    /\ (bodySeg.net # 0 => ~bodySeg.models[bodySeg.net].disposed)

====
